---- MODULE Spec2Model ----
(***************************************************************************)
(* Model of the rust-scion-std-net address parser and formatter.           *)
(*                                                                         *)
(* Texts are sequences of one-character strings.  The scanner              *)
(* (src/src/parser.rs, struct Parser) is a cursor into the input: the      *)
(* remaining-suffix slice `state` is modelled by the 1-based index `pos`   *)
(* of its first byte.  Every reader yields a record                        *)
(*     [ok |-> BOOLEAN, val |-> value, pos |-> cursor afterwards]          *)
(* Integers wider than 16 bits (u32, u64) are sequences of base-2^16       *)
(* limbs, most significant first, so that their width is kept.             *)
(***************************************************************************)
EXTENDS Integers, Sequences, FiniteSets, TLC

VARIABLES input, cursor, last, stdout, value

vars == <<input, cursor, last, stdout, value>>

-----------------------------------------------------------------------------
(* Sequencing: `let x = e; rest` is With(e, LAMBDA x : rest), which         *)
(* evaluates e once, before rest.                                           *)

With(e, rest(_)) == CHOOSE r \in {rest(x) : x \in {e}} : TRUE

(* Option values *)

None == [ok |-> FALSE, val |-> <<>>]

Some(v) == [ok |-> TRUE, val |-> v]

-----------------------------------------------------------------------------
(* Fixed-width unsigned integers *)

Base == 65536

\* u8::MAX, u16::MAX as used by checked_mul / checked_add
MaxOf(w) == IF w = 8 THEN 255 ELSE 65535

\* number of 16-bit limbs of a w-bit integer
LimbsOf(w) == IF w <= 16 THEN 1 ELSE w \div 16

\* T::ZERO
ZERO(w) == [i \in 1..LimbsOf(w) |-> 0]

RECURSIVE MulAddLimbs(_, _, _)
\* x * r + carry on limbs; yields the carry-out followed by the limbs
MulAddLimbs(x, r, carry) ==
    IF x = <<>> THEN <<carry>>
    ELSE With(x[Len(x)] * r + carry, LAMBDA t :
             MulAddLimbs(SubSeq(x, 1, Len(x) - 1), r, t \div Base)
                 \o <<t % Base>>)

\* the w-bit result of a limb computation with carry-out, None on overflow
Checked(full, w) ==
    IF full[1] > 0 \/ full[2] > MaxOf(w) THEN None ELSE Some(Tail(full))

\* ReadNumberHelper::checked_mul: other.try_into().ok()? then T::checked_mul
checked_mul(x, other, w) ==
    IF w <= 16 /\ other > MaxOf(w) THEN None
    ELSE With(MulAddLimbs(x, other, 0), LAMBDA full : Checked(full, w))

\* checked_add that wraps around (T::wrapping_add)
checked_add_wrapping(x, other, w) ==
    IF w <= 16 /\ other > MaxOf(w) THEN None
    ELSE With(MulAddLimbs(x, 1, other), LAMBDA full :
             IF w <= 16 THEN Some(<<full[2] % (MaxOf(w) + 1)>>)
             ELSE Some(Tail(full)))

\* ReadNumberHelper::checked_add: other.try_into().ok()? then T::checked_add
checked_add(x, other, w) ==
    IF w <= 16 /\ other > MaxOf(w) THEN None
    ELSE With(MulAddLimbs(x, 1, other), LAMBDA full : Checked(full, w))

\* a value of read_number as the integer of its type: u8 and u16 are plain
\* integers, u32 stays a pair of limbs
AsValue(x, w) == IF w <= 16 THEN x[1] ELSE x

-----------------------------------------------------------------------------
(* Characters *)

HexLower == <<"0", "1", "2", "3", "4", "5", "6", "7", "8", "9",
              "a", "b", "c", "d", "e", "f">>

HexUpper == <<"0", "1", "2", "3", "4", "5", "6", "7", "8", "9",
              "A", "B", "C", "D", "E", "F">>

\* char::to_digit(radix)
to_digit(c, radix) ==
    With({i \in 1..radix : HexLower[i] = c \/ HexUpper[i] = c}, LAMBDA hit :
        IF hit = {} THEN None ELSE Some((CHOOSE i \in hit : TRUE) - 1))

-----------------------------------------------------------------------------
(* Scanner primitives *)

Failed(p) == [ok |-> FALSE, val |-> <<>>, pos |-> p]

Read(v, p) == [ok |-> TRUE, val |-> v, pos |-> p]

\* a call that aborted at cursor p: an index out of bounds, an integer
\* underflow, or unwrap on None / Err
Aborted(p) == [ok |-> FALSE, val |-> <<>>, pos |-> p, panic |-> TRUE]

\* r is the record of a call that aborted
IsAborted(r) == "panic" \in DOMAIN r /\ r.panic

\* read_atomically without `self.state = state`
read_atomically_keep(before, r) == r

\* Parser::read_atomically: `before` is the saved state, r what the inner
\* reader left behind
read_atomically(before, r) ==
    With(r, LAMBDA result :
        IF result.ok THEN result ELSE [result EXCEPT !.pos = before])

\* Parser::peek_char
peek_char(s, pos) == IF pos <= Len(s) THEN Some(s[pos]) ELSE None

\* Parser::read_char
read_char(s, pos) ==
    IF pos <= Len(s) THEN Read(s[pos], pos + 1) ELSE Failed(pos)

\* Parser::read_given_char
read_given_char(s, pos, target) ==
    read_atomically(pos,
        With(read_char(s, pos), LAMBDA c :
            IF c.ok /\ c.val = target THEN Read(<<>>, c.pos)
            ELSE Failed(c.pos)))

\* Parser::read_separator
read_separator(s, pos, sep, index, inner(_, _)) ==
    read_atomically(pos,
        IF index > 0
        THEN With(read_given_char(s, pos, sep), LAMBDA c :
                 IF c.ok THEN inner(s, c.pos) ELSE Failed(c.pos))
        ELSE inner(s, pos))

\* one turn of the while loop of read_number on the digit just read:
\* checked_mul, checked_add, digit_count += 1, the max_digits test
accumulate(result, digit, radix, max_digits, w, digit_count) ==
    With(checked_mul(result, radix, w), LAMBDA m :
        IF ~m.ok THEN None
        ELSE With(checked_add(m.val, digit, w), LAMBDA a :
            IF ~a.ok THEN None
            ELSE IF \E m_d \in max_digits : digit_count + 1 > m_d THEN None
            ELSE a))

RECURSIVE read_digits(_, _, _, _, _, _, _)
\* the while loop of read_number; count is digit_count at its end
read_digits(s, pos, radix, max_digits, w, result, digit_count) ==
    With(read_atomically(pos,
             With(read_char(s, pos), LAMBDA c :
                 IF ~c.ok THEN Failed(c.pos)
                 ELSE With(to_digit(c.val, radix), LAMBDA d :
                     IF d.ok THEN Read(d.val, c.pos) ELSE Failed(c.pos)))),
         LAMBDA digit :
            IF ~digit.ok
            THEN [ok |-> TRUE, val |-> result, pos |-> digit.pos,
                  count |-> digit_count]
            ELSE With(accumulate(result, digit.val, radix, max_digits, w,
                                 digit_count),
                      LAMBDA a :
                IF ~a.ok
                THEN [ok |-> FALSE, val |-> <<>>, pos |-> digit.pos,
                      count |-> digit_count]
                ELSE read_digits(s, digit.pos, radix, max_digits, w, a.val,
                                 digit_count + 1)))

\* Parser::read_number::<T> for a T of w bits; max_digits is {} for None
\* and {m} for Some(m)
read_number(s, pos, radix, max_digits, allow_zero_prefix, w) ==
    read_atomically(pos,
        With(peek_char(s, pos), LAMBDA first :
        With(read_digits(s, pos, radix, max_digits, w, ZERO(w), 0), LAMBDA r :
            IF ~r.ok THEN Failed(r.pos)
            ELSE IF r.count = 0 THEN Failed(r.pos)
            ELSE IF ~allow_zero_prefix /\ (first.ok /\ first.val = "0")
                    /\ r.count > 1
            THEN Failed(r.pos)
            ELSE Read(AsValue(r.val, w), r.pos))))

-----------------------------------------------------------------------------
(* IPv4 and IPv6 literal readers *)

\* the closure of read_ipv4_addr with allow_zero_prefix set
read_v4_group_octal(s, pos) == read_number(s, pos, 10, {3}, TRUE, 8)

\* the closure of read_ipv4_addr: p.read_number(10, Some(3), false) as u8
read_v4_group(s, pos) == read_number(s, pos, 10, {3}, FALSE, 8)

\* the closure of read_groups: p.read_number(16, Some(4), true) as u16
read_v6_group(s, pos) == read_number(s, pos, 16, {4}, TRUE, 16)

RECURSIVE read_ipv4_slots(_, _, _, _)
\* the for loop of read_ipv4_addr over the four slots, i counted from 0
read_ipv4_slots(s, pos, i, groups) ==
    IF i = 4 THEN Read(groups, pos)
    ELSE With(read_separator(s, pos, ".", i, read_v4_group), LAMBDA g :
             IF ~g.ok THEN Failed(g.pos)
             ELSE read_ipv4_slots(s, g.pos, i + 1,
                                  [groups EXCEPT ![i + 1] = g.val]))

\* Parser::read_ipv4_addr; an Ipv4Addr is its four octets
read_ipv4_addr(s, pos) ==
    read_atomically(pos, read_ipv4_slots(s, pos, 0, <<0, 0, 0, 0>>))

\* u16::from_be_bytes
from_be_bytes(hi, lo) == hi * 256 + lo

\* u16::to_be_bytes
to_be_bytes(x) == <<x \div 256, x % 256>>

RECURSIVE read_groups_v4_last_from(_, _, _, _)
\* the for loop of read_groups with the embedded IPv4 address tried in
\* every slot, the last one too (`i < limit`)
read_groups_v4_last_from(s, pos, groups, i) ==
    IF i >= Len(groups)
    THEN [n |-> Len(groups), ipv4 |-> FALSE, groups |-> groups, pos |-> pos,
          panic |-> FALSE]
    ELSE With(read_separator(s, pos, ":", i, read_ipv4_addr), LAMBDA ipv4 :
        IF ipv4.ok
        THEN IF i + 2 > Len(groups)
             THEN [n |-> i, ipv4 |-> TRUE, groups |-> groups,
                   pos |-> ipv4.pos, panic |-> TRUE]
             ELSE [n |-> i + 2, ipv4 |-> TRUE, pos |-> ipv4.pos,
                   panic |-> FALSE,
                   groups |-> [groups EXCEPT
                       ![i + 1] = from_be_bytes(ipv4.val[1], ipv4.val[2]),
                       ![i + 2] = from_be_bytes(ipv4.val[3], ipv4.val[4])]]
        ELSE With(read_separator(s, ipv4.pos, ":", i, read_v6_group),
                  LAMBDA group :
            IF group.ok
            THEN read_groups_v4_last_from(s, group.pos,
                     [groups EXCEPT ![i + 1] = group.val], i + 1)
            ELSE [n |-> i, ipv4 |-> FALSE, groups |-> groups,
                  pos |-> group.pos, panic |-> FALSE]))

RECURSIVE read_groups_from(_, _, _, _)
\* the for loop of read_groups from slot i (counted from 0) on; limit is
\* groups.len().  panic is TRUE where `limit - 1` underflows or the index
\* i + 1 is not in groups
read_groups_from(s, pos, groups, i) ==
    IF i >= Len(groups)
    THEN [n |-> Len(groups), ipv4 |-> FALSE, groups |-> groups, pos |-> pos,
          panic |-> FALSE]
    ELSE IF Len(groups) - 1 < 0
    THEN [n |-> i, ipv4 |-> FALSE, groups |-> groups, pos |-> pos,
          panic |-> TRUE]
    ELSE With(IF i < Len(groups) - 1
              THEN read_separator(s, pos, ":", i, read_ipv4_addr)
              ELSE Failed(pos),
              LAMBDA ipv4 :
        IF ipv4.ok
        THEN IF i + 2 > Len(groups)
             THEN [n |-> i, ipv4 |-> TRUE, groups |-> groups,
                   pos |-> ipv4.pos, panic |-> TRUE]
             ELSE [n |-> i + 2, ipv4 |-> TRUE, pos |-> ipv4.pos,
                   panic |-> FALSE,
                   groups |-> [groups EXCEPT
                       ![i + 1] = from_be_bytes(ipv4.val[1], ipv4.val[2]),
                       ![i + 2] = from_be_bytes(ipv4.val[3], ipv4.val[4])]]
        ELSE With(read_separator(s, ipv4.pos, ":", i, read_v6_group),
                  LAMBDA group :
            IF group.ok
            THEN read_groups_from(s, group.pos,
                                  [groups EXCEPT ![i + 1] = group.val], i + 1)
            ELSE [n |-> i, ipv4 |-> FALSE, groups |-> groups,
                  pos |-> group.pos, panic |-> FALSE]))

\* read_groups(p, groups): groups is the zeroed slice handed in
read_groups(s, pos, groups) == read_groups_from(s, pos, groups, 0)

\* From<[u16; 8]> for Ipv6Addr: an Ipv6Addr is its sixteen octets
Ipv6FromSegments(seg) ==
    [i \in 1..16 |-> to_be_bytes(seg[(i + 1) \div 2])[2 - (i % 2)]]

\* Ipv6Addr::segments
segments(octets) ==
    [i \in 1..8 |-> from_be_bytes(octets[2 * i - 1], octets[2 * i])]

\* read_ipv6_addr without the copy of the tail
copy_tail_none(head, tail, tail_size) == head

\* head[(8 - tail_size)..8].copy_from_slice(&tail[..tail_size])
copy_tail(head, tail, tail_size) ==
    [i \in 1..8 |-> IF i > 8 - tail_size THEN tail[i - (8 - tail_size)]
                    ELSE head[i]]

\* read_ipv6_addr with the tail limit 8 - head_size, so that "::" may stand
\* for no group at all
read_ipv6_addr_wide(s, pos) ==
    read_atomically(pos,
        With(read_groups(s, pos, [i \in 1..8 |-> 0]), LAMBDA h :
            IF h.n = 8 THEN Read(Ipv6FromSegments(h.groups), h.pos)
            ELSE IF h.ipv4 THEN Failed(h.pos)
            ELSE With(read_given_char(s, h.pos, ":"), LAMBDA c1 :
                IF ~c1.ok THEN Failed(c1.pos)
                ELSE With(read_given_char(s, c1.pos, ":"), LAMBDA c2 :
                    IF ~c2.ok THEN Failed(c2.pos)
                    ELSE With(read_groups(s, c2.pos,
                                  [i \in 1..(8 - h.n) |-> 0]),
                              LAMBDA t :
                        Read(Ipv6FromSegments(
                                 copy_tail(h.groups, t.groups, t.n)),
                             t.pos))))))

\* read_ipv6_addr without `if head_ipv4 { return None; }`
read_ipv6_addr_v4_head(s, pos) ==
    read_atomically(pos,
        With(read_groups(s, pos, [i \in 1..8 |-> 0]), LAMBDA h :
            IF h.n = 8 THEN Read(Ipv6FromSegments(h.groups), h.pos)
            ELSE With(read_given_char(s, h.pos, ":"), LAMBDA c1 :
                IF ~c1.ok THEN Failed(c1.pos)
                ELSE With(read_given_char(s, c1.pos, ":"), LAMBDA c2 :
                    IF ~c2.ok THEN Failed(c2.pos)
                    ELSE With(read_groups(s, c2.pos,
                                  [i \in 1..(8 - (h.n + 1)) |-> 0]),
                              LAMBDA t :
                        Read(Ipv6FromSegments(
                                 copy_tail(h.groups, t.groups, t.n)),
                             t.pos))))))

\* Parser::read_ipv6_addr; the call aborts where read_groups does, where
\* 8 - (head_size + 1) underflows, and where a slice bound is out of range
read_ipv6_addr(s, pos) ==
    read_atomically(pos,
        With(read_groups(s, pos, [i \in 1..8 |-> 0]), LAMBDA h :
            IF h.panic THEN Aborted(h.pos)
            ELSE IF h.n = 8 THEN Read(Ipv6FromSegments(h.groups), h.pos)
            ELSE IF h.ipv4 THEN Failed(h.pos)
            ELSE With(read_given_char(s, h.pos, ":"), LAMBDA c1 :
                IF ~c1.ok THEN Failed(c1.pos)
                ELSE With(read_given_char(s, c1.pos, ":"), LAMBDA c2 :
                    IF ~c2.ok THEN Failed(c2.pos)
                    ELSE IF 8 - (h.n + 1) < 0 \/ 8 - (h.n + 1) > 7
                    THEN Aborted(c2.pos)
                    ELSE With(read_groups(s, c2.pos,
                                  [i \in 1..(8 - (h.n + 1)) |-> 0]),
                              LAMBDA t :
                        IF t.panic \/ 8 - t.n < 0 \/ t.n > 7
                        THEN Aborted(t.pos)
                        ELSE Read(Ipv6FromSegments(
                                      copy_tail(h.groups, t.groups, t.n)),
                                  t.pos))))))

-----------------------------------------------------------------------------
(* Number formatting and 64-bit arithmetic *)

RECURSIVE DigitsOf(_, _)
\* the digits of the integer x in the given radix, no leading zeros
DigitsOf(x, radix) ==
    IF x < radix THEN <<HexLower[x + 1]>>
    ELSE DigitsOf(x \div radix, radix) \o <<HexLower[(x % radix) + 1]>>

\* format!("{:0>n}", t) and the zero flag of a numeric format
PadLeft(t, n) ==
    IF Len(t) >= n THEN t ELSE [i \in 1..(n - Len(t)) |-> "0"] \o t

RECURSIVE StripZeroLimbs(_)
StripZeroLimbs(x) ==
    IF Len(x) > 1 /\ x[1] = 0 THEN StripZeroLimbs(Tail(x)) ELSE x

RECURSIVE HexOfLimbs(_)
HexOfLimbs(x) ==
    IF Len(x) = 1 THEN DigitsOf(x[1], 16)
    ELSE HexOfLimbs(SubSeq(x, 1, Len(x) - 1))
             \o PadLeft(DigitsOf(x[Len(x)], 16), 4)

\* format!("{:x}", x) of an integer given by its limbs
format_x(x) == HexOfLimbs(StripZeroLimbs(x))

\* format!("{:04x}", x)
format_04x(x) == PadLeft(format_x(x), 4)

\* bit k of x
Bit(x, k) == (x \div (2 ^ k)) % 2

\* bitwise or of two 16-bit integers
BitOr16(a, b) ==
    With([k \in 0..15 |-> IF Bit(a, k) = 1 \/ Bit(b, k) = 1 THEN 2 ^ k ELSE 0],
         LAMBDA or :
            or[0] + or[1] + or[2] + or[3] + or[4] + or[5] + or[6] + or[7]
            + or[8] + or[9] + or[10] + or[11] + or[12] + or[13] + or[14]
            + or[15])

\* x as u64
U64(x) == <<0, 0, 0, x>>

\* u64 << 16 and u64 >> 16: the bits shifted out are dropped
Shl16(x) == <<x[2], x[3], x[4], 0>>

Shr16(x) == <<0, x[1], x[2], x[3]>>

\* u64 | u64
BitOr64(x, y) == [i \in 1..4 |-> BitOr16(x[i], y[i])]

-----------------------------------------------------------------------------
(* scion_parse_utils.rs *)

RECURSIVE tokenize(_, _)
\* tokenize(s, Regex "[:]+"): split at runs of ':', empty pieces dropped;
\* cur is the piece being collected
tokenize(s, cur) ==
    IF s = <<>> THEN (IF cur = <<>> THEN <<>> ELSE <<cur>>)
    ELSE IF Head(s) = ":"
    THEN (IF cur = <<>> THEN <<>> ELSE <<cur>>) \o tokenize(Tail(s), <<>>)
    ELSE tokenize(Tail(s), Append(cur, Head(s)))

\* pad_to_4 that pads nothing
pad_to_4_none(x) == x

\* pad_to_4
pad_to_4(x) == PadLeft(x, 4)

RECURSIVE concat(_)
concat(ts) == IF ts = <<>> THEN <<>> ELSE Head(ts) \o concat(Tail(ts))

RECURSIVE from_hex_digits(_, _)
from_hex_digits(t, acc) ==
    IF t = <<>> THEN Some(acc)
    ELSE With(to_digit(Head(t), 16), LAMBDA d :
             IF ~d.ok THEN None
             ELSE With(MulAddLimbs(acc, 16, d.val), LAMBDA m :
                 IF m[1] > 0 THEN None
                 ELSE from_hex_digits(Tail(t), Tail(m))))

\* u64::from_str_radix(t, 16): Err on an empty text, a lone sign, a
\* character that is no hex digit, or a value above u64::MAX
from_str_radix16(t) ==
    With(IF t # <<>> /\ Head(t) = "+" THEN Tail(t) ELSE t, LAMBDA digits :
        IF digits = <<>> THEN None
        ELSE from_hex_digits(digits, <<0, 0, 0, 0>>))

\* as_from_dotted_hex: ok is FALSE where the unwrap panics
as_from_dotted_hex(s) ==
    With(tokenize(s, <<>>), LAMBDA token :
        from_str_radix16(concat([i \in 1..Len(token) |-> pad_to_4(token[i])])))

\* as_from_ia without the two shifts
as_from_ia_whole(x) == x

\* as_from_ia
as_from_ia(x) == Shr16(Shl16(x))

\* isd_from_ia: (ia >> 48).try_into().unwrap()
isd_from_ia(x) == Shr16(Shr16(Shr16(x)))[4]

\* make_ia
\* make_ia that drops the ISD
make_ia_no_isd(isd, as_) == as_

make_ia(isd, as_) == BitOr64(Shl16(Shl16(Shl16(U64(isd)))), as_)

-----------------------------------------------------------------------------
(* SCION address reader.  Its records carry two more fields: out, the       *)
(* lines the reader printed with println!, and panic, TRUE where an unwrap  *)
(* aborted the call.                                                        *)

IpAddrV4(a) == [tag |-> "V4", addr |-> a]

IpAddrV6(a) == [tag |-> "V6", addr |-> a]

\* ScionAddr::get_ia
get_ia(a) == a.ia

\* ScionAddr::get_isd
get_isd(a) == isd_from_ia(get_ia(a))

\* ScionAddr::get_as
get_as(a) == as_from_ia(get_ia(a))

\* ScionAddr::new
ScionAddr_new(ia_, host_) == [ia |-> ia_, host |-> host_]

\* a reader that prints nothing
Quiet(r) ==
    With(r, LAMBDA q : [ok |-> q.ok, val |-> q.val, pos |-> q.pos,
                        out |-> <<>>, panic |-> IsAborted(q)])

\* a reader failing at cursor p after the lines out were printed
FailedAfter(p, out) ==
    [ok |-> FALSE, val |-> <<>>, pos |-> p, out |-> out, panic |-> FALSE]

\* the closure of read_AS: p.read_number::<u32>(16, Some(4), true)
read_as_group(s, pos) == read_number(s, pos, 16, {4}, TRUE, 32)

RECURSIVE read_AS_slots(_, _, _, _, _)
\* the for loop of read_AS over the three slots, i counted from 0
read_AS_slots(s, pos, i, n, groups) ==
    IF i = 3
    THEN [n |-> n, short_as |-> FALSE, groups |-> groups, pos |-> pos]
    ELSE With(read_separator(s, pos, ":", i, read_as_group), LAMBDA token :
             IF token.ok
             THEN read_AS_slots(s, token.pos, i + 1, n + 1,
                                [groups EXCEPT ![i + 1] = token.val])
             ELSE IF n = 1
             THEN [n |-> n, short_as |-> TRUE, groups |-> groups,
                   pos |-> token.pos]
             ELSE read_AS_slots(s, token.pos, i + 1, n, groups))

\* the as_string of read_AS
as_string_of(short_as, groups) ==
    IF ~short_as
    THEN format_04x(groups[1]) \o <<":">> \o format_04x(groups[2])
             \o <<":">> \o format_04x(groups[3])
    ELSE format_04x(ZERO(32)) \o <<":">> \o format_04x(ZERO(32))
             \o <<":">> \o format_04x(groups[1])

\* read_AS without the `if n == 2` rejection
read_AS_two_groups(s, pos) ==
    With(read_AS_slots(s, pos, 0, 0, [i \in 1..3 |-> ZERO(32)]), LAMBDA l :
        With(as_string_of(l.short_as, l.groups), LAMBDA as_string :
        With(as_from_dotted_hex(as_string), LAMBDA as_ :
            [ok |-> as_.ok, val |-> as_.val, pos |-> l.pos,
             out |-> << <<"as_string: ">> \o as_string >>,
             panic |-> ~as_.ok])))

\* read_AS
read_AS(s, pos) ==
    With(read_AS_slots(s, pos, 0, 0, [i \in 1..3 |-> ZERO(32)]), LAMBDA l :
        IF l.n = 2
        THEN read_atomically(pos, FailedAfter(l.pos, << <<"IS_SHORT_AS">> >>))
        ELSE With(as_string_of(l.short_as, l.groups), LAMBDA as_string :
             With(as_from_dotted_hex(as_string), LAMBDA as_ :
                [ok |-> as_.ok, val |-> as_.val, pos |-> l.pos,
                 out |-> << <<"as_string: ">> \o as_string >>,
                 panic |-> ~as_.ok])))

\* Parser::read_ip_addr, and the host of read_scion_addr:
\* self.read_ipv4_addr().map(IpAddr::V4)
\*     .or_else(|| self.read_ipv6_addr().map(IpAddr::V6))
read_ip_addr(s, pos) ==
    With(read_ipv4_addr(s, pos), LAMBDA v4 :
        IF v4.ok THEN Read(IpAddrV4(v4.val), v4.pos)
        ELSE With(read_ipv6_addr(s, v4.pos), LAMBDA v6 :
            IF v6.ok THEN Read(IpAddrV6(v6.val), v6.pos)
            ELSE IF IsAborted(v6) THEN v6
            ELSE Failed(v6.pos)))

\* read_scion_addr from the ',' on, without the two read_given_char calls
\* for '[' and ']'
read_scion_host_bare(s, isd, as_) ==
    With(read_given_char(s, as_.pos, ","), LAMBDA comma :
        IF ~comma.ok THEN FailedAfter(comma.pos, as_.out)
        ELSE With(read_ip_addr(s, comma.pos), LAMBDA host :
                IF ~host.ok THEN FailedAfter(host.pos, as_.out)
                ELSE [ok |-> TRUE, pos |-> host.pos, out |-> as_.out,
                      panic |-> FALSE,
                      val |-> ScionAddr_new(make_ia(isd, as_.val),
                                            host.val)]))

\* read_scion_addr from the ',' on: isd and as_ are read
read_scion_host(s, isd, as_) ==
    With(read_given_char(s, as_.pos, ","), LAMBDA comma :
        IF ~comma.ok THEN FailedAfter(comma.pos, as_.out)
        ELSE With(read_given_char(s, comma.pos, "["), LAMBDA open :
             With(read_ip_addr(s, open.pos), LAMBDA host :
             With(read_given_char(s, host.pos, "]"), LAMBDA close :
                IF IsAborted(host)
                THEN [FailedAfter(host.pos, as_.out) EXCEPT !.panic = TRUE]
                ELSE IF ~host.ok THEN FailedAfter(close.pos, as_.out)
                ELSE [ok |-> TRUE, pos |-> close.pos, out |-> as_.out,
                      panic |-> FALSE,
                      val |-> ScionAddr_new(make_ia(isd, as_.val),
                                            host.val)]))))

\* Parser::read_scion_addr
read_scion_addr(s, pos) ==
    With(With(read_number(s, pos, 10, {6}, TRUE, 16), LAMBDA isd :
            IF ~isd.ok THEN FailedAfter(isd.pos, <<>>)
            ELSE With(read_given_char(s, isd.pos, "-"), LAMBDA dash :
                IF ~dash.ok THEN FailedAfter(dash.pos, <<>>)
                ELSE With(read_AS(s, dash.pos), LAMBDA as_ :
                    IF as_.panic \/ ~as_.ok THEN as_
                    ELSE read_scion_host(s, isd.val, as_)))),
         LAMBDA body :
            IF body.panic THEN body ELSE read_atomically(pos, body))

-----------------------------------------------------------------------------
(* Socket readers *)

\* read_port that reads at most five digits
read_port_five_digits(s, pos) ==
    read_atomically(pos,
        With(read_given_char(s, pos, ":"), LAMBDA c :
            IF ~c.ok THEN Failed(c.pos)
            ELSE read_number(s, c.pos, 10, {5}, TRUE, 16)))

\* Parser::read_port
read_port(s, pos) ==
    read_atomically(pos,
        With(read_given_char(s, pos, ":"), LAMBDA c :
            IF ~c.ok THEN Failed(c.pos)
            ELSE read_number(s, c.pos, 10, {}, TRUE, 16)))

\* Parser::read_scope_id
read_scope_id(s, pos) ==
    read_atomically(pos,
        With(read_given_char(s, pos, "%"), LAMBDA c :
            IF ~c.ok THEN Failed(c.pos)
            ELSE read_number(s, c.pos, 10, {}, TRUE, 32)))

\* ScionAddr::new1
ScionAddr_new1(isd_, as_, host_) == [ia |-> make_ia(isd_, as_), host |-> host_]

\* SocketAddrV4::new
SocketAddrV4_new(ip_, port_) == [ip |-> ip_, port |-> port_]

\* SocketAddrV6::new
SocketAddrV6_new(ip_, port_, flowinfo_, scope_id_) ==
    [ip |-> ip_, port |-> port_, flowinfo |-> flowinfo_,
     scope_id |-> scope_id_]

\* SocketAddrScion::new1
SocketAddrScion_new1(add, p) == [addr |-> add, port |-> p]

\* Parser::read_socket_addr_v4
read_socket_addr_v4(s, pos) ==
    read_atomically(pos,
        With(read_ipv4_addr(s, pos), LAMBDA ip :
            IF ~ip.ok THEN Failed(ip.pos)
            ELSE With(read_port(s, ip.pos), LAMBDA port :
                IF ~port.ok THEN Failed(port.pos)
                ELSE Read(SocketAddrV4_new(ip.val, port.val), port.pos))))

\* read_socket_addr_v6 from the scope id on: ip is read
read_socket_v6_rest(s, ip) ==
    With(read_scope_id(s, ip.pos), LAMBDA scope :
    With(read_given_char(s, scope.pos, "]"), LAMBDA close :
        IF ~close.ok THEN Failed(close.pos)
        ELSE With(read_port(s, close.pos), LAMBDA port :
            IF ~port.ok THEN Failed(port.pos)
            ELSE Read(SocketAddrV6_new(ip.val, port.val, ZERO(32),
                          IF scope.ok THEN scope.val ELSE ZERO(32)),
                      port.pos))))

\* Parser::read_socket_addr_v6
read_socket_addr_v6(s, pos) ==
    read_atomically(pos,
        With(read_given_char(s, pos, "["), LAMBDA open :
            IF ~open.ok THEN Failed(open.pos)
            ELSE With(read_ipv6_addr(s, open.pos), LAMBDA ip :
                IF IsAborted(ip) THEN ip
                ELSE IF ~ip.ok THEN Failed(ip.pos)
                ELSE read_socket_v6_rest(s, ip))))

\* Parser::read_socket_addr_scion
read_socket_addr_scion(s, pos) ==
    With(With(read_scion_addr(s, pos), LAMBDA scion_addr :
            IF scion_addr.panic \/ ~scion_addr.ok THEN scion_addr
            ELSE With(read_port(s, scion_addr.pos), LAMBDA port :
                IF ~port.ok THEN FailedAfter(port.pos, scion_addr.out)
                ELSE [scion_addr EXCEPT
                        !.val = SocketAddrScion_new1(scion_addr.val, port.val),
                        !.pos = port.pos])),
         LAMBDA body :
            IF body.panic THEN body ELSE read_atomically(pos, body))

\* read_socket_addr without the SCION alternative
read_socket_addr_ip_only(s, pos) ==
    With(read_socket_addr_v4(s, pos), LAMBDA v4 :
        IF v4.ok THEN Quiet(Read([tag |-> "V4", sock |-> v4.val], v4.pos))
        ELSE With(read_socket_addr_v6(s, v4.pos), LAMBDA v6 :
            IF v6.ok
            THEN Quiet(Read([tag |-> "V6", sock |-> v6.val], v6.pos))
            ELSE Quiet(v6)))

\* Parser::read_socket_addr
read_socket_addr(s, pos) ==
    With(read_socket_addr_v4(s, pos), LAMBDA v4 :
        IF v4.ok THEN Quiet(Read([tag |-> "V4", sock |-> v4.val], v4.pos))
        ELSE With(read_socket_addr_v6(s, v4.pos), LAMBDA v6 :
            IF v6.ok
            THEN Quiet(Read([tag |-> "V6", sock |-> v6.val], v6.pos))
            ELSE IF IsAborted(v6) THEN Quiet(v6)
            ELSE With(read_socket_addr_scion(s, v6.pos), LAMBDA sc :
                IF sc.ok
                THEN [sc EXCEPT !.val = [tag |-> "SCION", sock |-> sc.val]]
                ELSE sc)))

-----------------------------------------------------------------------------
(* Entry points: parse_ascii / from_str *)

\* parse_with without the `self.state.is_empty()` test
parse_with_prefix(s, r, kind) ==
    With(r, LAMBDA result :
        IF result.ok
        THEN [ok |-> TRUE, val |-> result.val, err |-> "none",
              pos |-> result.pos, out |-> result.out, panic |-> FALSE]
        ELSE [ok |-> FALSE, val |-> <<>>, err |-> kind,
              pos |-> result.pos, out |-> result.out, panic |-> FALSE])

\* Parser::parse_with on the input s, r being what the reader returned on
\* a new Parser; the result keeps the parser's final cursor and output
parse_with(s, r, kind) ==
    With(r, LAMBDA result :
        IF result.panic
        THEN [ok |-> FALSE, val |-> <<>>, err |-> "panic",
              pos |-> result.pos, out |-> result.out, panic |-> TRUE]
        ELSE IF result.pos > Len(s) /\ result.ok
        THEN [ok |-> TRUE, val |-> result.val, err |-> "none",
              pos |-> result.pos, out |-> result.out, panic |-> FALSE]
        ELSE [ok |-> FALSE, val |-> <<>>, err |-> kind,
              pos |-> result.pos, out |-> result.out, panic |-> FALSE])

\* IpAddr::parse_ascii
IpAddr_parse_ascii(b) == parse_with(b, Quiet(read_ip_addr(b, 1)), "Ip")

\* Ipv4Addr::parse_ascii
Ipv4Addr_parse_ascii(b) ==
    IF Len(b) > 15
    THEN [ok |-> FALSE, val |-> <<>>, err |-> "Ipv4", pos |-> 1,
          out |-> <<>>, panic |-> FALSE]
    ELSE parse_with(b, Quiet(read_ipv4_addr(b, 1)), "Ipv4")

\* Ipv6Addr::parse_ascii
Ipv6Addr_parse_ascii(b) == parse_with(b, Quiet(read_ipv6_addr(b, 1)), "Ipv6")

\* SocketAddrV4::parse_ascii
SocketAddrV4_parse_ascii(b) ==
    parse_with(b, Quiet(read_socket_addr_v4(b, 1)), "SocketV4")

\* SocketAddrV6::parse_ascii
SocketAddrV6_parse_ascii(b) ==
    parse_with(b, Quiet(read_socket_addr_v6(b, 1)), "SocketV6")

\* ScionAddr::parse_ascii
ScionAddr_parse_ascii(b) == parse_with(b, read_scion_addr(b, 1), "Scion")

\* SocketAddrScion::parse_ascii
SocketAddrScion_parse_ascii(b) ==
    parse_with(b, read_socket_addr_scion(b, 1), "SocketScion")

\* SocketAddr::parse_ascii
SocketAddr_parse_ascii(b) == parse_with(b, read_socket_addr(b, 1), "Socket")

-----------------------------------------------------------------------------
(* The Parser object: one action per reader, called at the current cursor *)

\* println! lines kept in stdout
MaxLines == 1

\* length of the exhaustively enumerated scanner inputs
MaxScanLen == 4

ScanAlphabet == {"1", ":", "."}

RECURSIVE TextsOver(_, _)
\* all texts over the alphabet of length at most n
TextsOver(alphabet, n) ==
    IF n = 0 THEN {<<>>}
    ELSE LET shorter == TextsOver(alphabet, n - 1)
         IN  shorter \cup {Append(t, c) : t \in shorter, c \in alphabet}

ScanSamples ==
    { <<"1", ".", "2", ".", "3", ".", "4", ":", "8", "0">>,
        <<"[", ":", ":", "1", "%", "7", "]", ":", "9">>,
        <<"1", "9", "-", "a", ":", "b", ":", "c", ",", "1", ".", "2", ".", "3", ".", "4", ":", "5">>, <<"1", "-", "1", ":", "2", ",", "1", ".", "2", ".", "3", ".", "4">>,
      <<"2", "5", "6", ".", "1", ".", "1", ".", "1">>,
        <<"0", "1", ".", "2", ".", "3", ".", "4">>,
        <<":", ":", "f", "f", "f", "f", ":", "1", ".", "2", ".", "3", ".", "4">>,
        <<"1", ":", ":", "2", ":", ":", "3">>, <<"%", "1", "2", "]">>,
      <<":", "6", "5", "5", "3", "6">>, <<"1", "-", ",", "[", ":", ":", "1", "]">>,
        <<"7", "-", ":", "5", ",", ":", ":", "1", "]", ":", "7">>,
        <<"1", "2", "3", "4", "5", ":">>, <<"0", "x", "1">>,
      <<"1", ":", "2", ":", "3", ":", "4", ":", "5", ":", "6", ":", "7", ":", "8">>,
        <<"-", ",", "[", "]">>,
        <<"0", "0", "0", "8", "0", "%", "4", "2", "9", "4", "9", "6", "7", "2", "9", "6">>,
        <<"F", "f", ".", "9">> }

ScanInputs == TextsOver(ScanAlphabet, MaxScanLen) \cup ScanSamples

Targets == {":", ".", "-", ",", "[", "]", "%"}

NoCall == [op |-> "new", ok |-> TRUE, val |-> <<>>, before |-> 1,
           panic |-> FALSE]

Init ==
    /\ input \in ScanInputs
    /\ cursor = 1
    /\ last = NoCall
    /\ stdout = <<>>
    /\ value = <<>>

\* a reader called on the parser: the cursor moves to where the reader left
\* it, the lines it printed go to stdout
Call(op, r) ==
    /\ ~last.panic
    /\ Len(stdout) + Len(r.out) <= MaxLines
    /\ cursor' = r.pos
    /\ last' = [op |-> op, ok |-> r.ok, val |-> r.val, before |-> cursor,
                panic |-> r.panic]
    /\ stdout' = stdout \o r.out
    /\ UNCHANGED <<input, value>>

PeekChar ==
    /\ ~last.panic
    /\ last' = [op |-> "peek_char", ok |-> peek_char(input, cursor).ok,
                val |-> peek_char(input, cursor).val, before |-> cursor,
                panic |-> FALSE]
    /\ UNCHANGED <<input, cursor, stdout, value>>

ReadChar == Call("read_char", Quiet(read_char(input, cursor)))

ReadGivenChar ==
    \E target \in Targets :
        Call("read_given_char", Quiet(read_given_char(input, cursor, target)))

ReadSeparator ==
    \E index \in {0, 1} :
        \/ Call("read_separator",
                Quiet(read_separator(input, cursor, ".", index, read_v4_group)))
        \/ Call("read_separator",
                Quiet(read_separator(input, cursor, ":", index, read_ipv4_addr)))
        \/ Call("read_separator",
                Quiet(read_separator(input, cursor, ":", index, read_v6_group)))
        \/ Call("read_separator",
                Quiet(read_separator(input, cursor, ":", index, read_as_group)))

ReadNumber ==
    \/ Call("read_number", Quiet(read_number(input, cursor, 10, {3}, FALSE, 8)))
    \/ Call("read_number", Quiet(read_number(input, cursor, 16, {4}, TRUE, 16)))
    \/ Call("read_number", Quiet(read_number(input, cursor, 16, {4}, TRUE, 32)))
    \/ Call("read_number", Quiet(read_number(input, cursor, 10, {6}, TRUE, 16)))
    \/ Call("read_number", Quiet(read_number(input, cursor, 10, {}, TRUE, 16)))
    \/ Call("read_number", Quiet(read_number(input, cursor, 10, {}, TRUE, 32)))

ReadIpv4Addr == Call("read_ipv4_addr", Quiet(read_ipv4_addr(input, cursor)))

ReadIpv6Addr == Call("read_ipv6_addr", Quiet(read_ipv6_addr(input, cursor)))

ReadScionAddr == Call("read_scion_addr", read_scion_addr(input, cursor))

ReadIpAddr == Call("read_ip_addr", Quiet(read_ip_addr(input, cursor)))

ReadPort == Call("read_port", Quiet(read_port(input, cursor)))

ReadScopeId == Call("read_scope_id", Quiet(read_scope_id(input, cursor)))

ReadSocketAddrV4 ==
    Call("read_socket_addr_v4", Quiet(read_socket_addr_v4(input, cursor)))

ReadSocketAddrV6 ==
    Call("read_socket_addr_v6", Quiet(read_socket_addr_v6(input, cursor)))

ReadSocketAddrScion ==
    Call("read_socket_addr_scion", read_socket_addr_scion(input, cursor))

ReadSocketAddr == Call("read_socket_addr", read_socket_addr(input, cursor))

Next ==
    \/ PeekChar
    \/ ReadChar
    \/ ReadGivenChar
    \/ ReadSeparator
    \/ ReadNumber
    \/ ReadIpv4Addr
    \/ ReadIpv6Addr
    \/ ReadScionAddr
    \/ ReadIpAddr
    \/ ReadPort
    \/ ReadScopeId
    \/ ReadSocketAddrV4
    \/ ReadSocketAddrV6
    \/ ReadSocketAddrScion
    \/ ReadSocketAddr

Spec == Init /\ [][Next]_vars

-----------------------------------------------------------------------------
(* The entry points, each on a Parser of its own over the whole input *)

\* parse_ascii / from_str called on the input: last keeps what it returned,
\* cursor where its parser stopped.  Every call builds its own Parser, so
\* calls do not influence each other and a behaviour makes one call.
Parse(op, res) ==
    /\ last.op = "new"
    /\ cursor' = res.pos
    /\ last' = [op |-> op, ok |-> res.ok, val |-> res.val, err |-> res.err,
                before |-> 1, panic |-> res.panic]
    /\ stdout' = stdout \o res.out
    /\ UNCHANGED <<input, value>>

ParseIpv4Addr == Parse("Ipv4Addr", Ipv4Addr_parse_ascii(input))

ParseIpv6Addr == Parse("Ipv6Addr", Ipv6Addr_parse_ascii(input))

ParseIpAddr == Parse("IpAddr", IpAddr_parse_ascii(input))

ParseScionAddr == Parse("ScionAddr", ScionAddr_parse_ascii(input))

ParseSocketAddrV4 == Parse("SocketAddrV4", SocketAddrV4_parse_ascii(input))

ParseSocketAddrV6 == Parse("SocketAddrV6", SocketAddrV6_parse_ascii(input))

ParseSocketAddrScion ==
    Parse("SocketAddrScion", SocketAddrScion_parse_ascii(input))

ParseSocketAddr == Parse("SocketAddr", SocketAddr_parse_ascii(input))

InitOn(inputs) ==
    /\ input \in inputs
    /\ cursor = 1
    /\ last = NoCall
    /\ stdout = <<>>
    /\ value = <<>>

EntryPrefixes ==
    { <<>>,
      <<"[">>,
      <<"1", "9", "-", "f", "f", "a", "a", ":", "1", ":", "1", "0", "6", "7", ",">>,
      <<"1", "-", "1", ":", "2", ",">>,
      <<"1", "9", "-", ",">>,
      <<"7", "-", "0", ":", "1", ":", "f", ",", "[">>,
      <<"6", "5", "5", "3", "6", "-", "1", ",">> }

EntryHosts ==
    { <<"1", ".", "2", ".", "3", ".", "4">>,
      <<"2", "5", "5", ".", "2", "5", "5", ".", "2", "5", "5", ".", "2", "5", "5", "5">>,
      <<"0", "1", ".", "2", ".", "3", ".", "4">>,
      <<"2", "5", "6", ".", "0", ".", "0", ".", "1">>,
      <<":", ":", "1">>,
      <<"1", ":", ":", "2", ":", ":", "3">>,
      <<"1", ":", "2", ":", "3", ":", "4", ":", "5", ":", "6", ":", "7", ":", "8">>,
      <<":", ":", "f", "f", "f", "f", ":", "1", ".", "2", ".", "3", ".", "4">>,
      <<"1", ":", "2", ":", "3", ":", "4", ":", "5", ":", "6", ":", "7", ":", ":">>,
      <<"1", ":", "2", ":", "3", ":", "4", ":", "5", ":", "6", ":", "7", ":", "1", ".", "2", ".", "3", ".", "4">>,
      <<"1", ":", "2", ":", "3", ":", "4", ":", "5", ":", "6", ":", "1", ".", "2", ".", "3", ".", "4">>,
      <<"1", ":", ":", "1", ".", "2", ".", "3", ".", "4">>,
      <<>> }

EntrySuffixes ==
    { <<>>,
      <<"]">>,
      <<":", "8", "0">>,
      <<"]", ":", "8", "0">>,
      <<"%", "3", "]", ":", "8", "0">>,
      <<":", "6", "5", "5", "3", "6">>,
      <<":", "8", "0", "x">>,
      <<" ">> }

EntryInputs ==
    {pre \o host \o post :
        pre \in EntryPrefixes, host \in EntryHosts, post \in EntrySuffixes}

InitEntry == InitOn(EntryInputs)

NextEntry ==
    \/ ParseIpv4Addr
    \/ ParseIpv6Addr
    \/ ParseIpAddr
    \/ ParseScionAddr
    \/ ParseSocketAddrV4
    \/ ParseSocketAddrV6
    \/ ParseSocketAddrScion
    \/ ParseSocketAddr

SpecEntry == InitEntry /\ [][NextEntry]_vars

-----------------------------------------------------------------------------
(* IPv4 texts *)

\* number of groups of the enumerated dotted texts
MaxV4Groups == 5

V4Groups == { <<"0">>, <<"1">>, <<"0", "1">>, <<"2", "5", "5">>, <<"2", "5", "6">> }

RECURSIVE Joined(_, _, _)
\* the texts of exactly n groups joined by sep
Joined(groups, sep, n) ==
    IF n = 1 THEN groups
    ELSE {g \o sep \o t : g \in groups, t \in Joined(groups, sep, n - 1)}

V4Samples ==
    { <<>>, <<"1", ".", "2", ".", "3", ".", "4", " ">>,
        <<" ", "1", ".", "2", ".", "3", ".", "4">>, <<"1", ".", ".", "2", ".", "3">>,
        <<"1", ".", "2", ".", "3", ".">>, <<".", "1", ".", "2", ".", "3">>,
        <<"1", ".", "2", ".", "3", ".", "4", ".">>,
      <<"1", ",", "2", ",", "3", ",", "4">>,
        <<"0", "0", "0", "1", ".", "2", ".", "3", ".", "4">>,
        <<"1", ".", "2", ".", "3", ".", "0", "2", "5", "5">>,
        <<"1", ".", "2", ".", "3", ".", "a">>, <<"+", "1", ".", "2", ".", "3", ".", "4">>,
      <<"1", ".", "2", ".", "3", ".", "1", "0", "0", "0">>,
        <<"9", "9", ".", "9", "9", ".", "9", "9", ".", "9", "9">>,
        <<"2", "5", "5", ".", "2", "5", "5", ".", "2", "5", "5", ".", "2", "5", "5">>,
        <<"2", "5", "5", ".", "2", "5", "5", ".", "2", "5", "5", ".", "2", "5", "5", "5">>,
      <<"0", "0", ".", "0", ".", "0", ".", "0">>, <<"1", ":", "2", ":", "3", ":", "4">>,
        <<"1", ".", "2", ".", "3", ".", "0", "x", "4">>,
        <<"1", ".", "2", ".", "3", ".", "-", "4">>,
        <<"1", ".", "2", ".", "3", ".", "4", ":", "8", "0">>,
      <<"1", "2", "7", ".", "0", ".", "0", ".", "1">>,
        <<"1", "9", "2", ".", "1", "0", ".", "2", ".", "2", "5", "5">>,
        <<"1", ".", "2", ".", "3", ".", "F">>, <<"0", "0", "0", ".", "0", ".", "0", ".", "0">>,
        <<"1", ".", "2", ".", "3", ".", "0", "4">>,
      <<"1", ".", "2", ".", "3", ".", "2", "6", "0">>,
        <<"1", ".", "2", ".", "3", ".", "3", "0", "0">>,
        <<"1", ".", "2", ".", "3", ".", "2", "5", " ">> }

V4Inputs ==
    UNION {Joined(V4Groups, <<".">>, n) : n \in 1..MaxV4Groups} \cup V4Samples

InitV4 == InitOn(V4Inputs)

NextV4 == ParseIpv4Addr \/ ParseIpAddr \/ ParseSocketAddrV4

SpecV4 == InitV4 /\ [][NextV4]_vars

-----------------------------------------------------------------------------
(* Text observers used to state the properties *)

DecDigits == {"0", "1", "2", "3", "4", "5", "6", "7", "8", "9"}

HexDigits == DecDigits \cup {"a", "b", "c", "d", "e", "f",
                             "A", "B", "C", "D", "E", "F"}

RECURSIVE Split(_, _, _)
\* the fields of t between the occurrences of sep, empty fields kept;
\* cur is the field being collected
Split(t, sep, cur) ==
    IF t = <<>> THEN <<cur>>
    ELSE IF Head(t) = sep THEN <<cur>> \o Split(Tail(t), sep, <<>>)
    ELSE Split(Tail(t), sep, Append(cur, Head(t)))

\* the value of a decimal digit
DecVal(c) == CHOOSE d \in 0..9 : HexLower[d + 1] = c

\* a decimal octet of the IPv4 grammar: 1 to 3 digits, at most 255, no
\* leading zero unless it is the single digit 0
IsOctetText(f) ==
    /\ Len(f) \in 1..3
    /\ \A i \in 1..Len(f) : f[i] \in DecDigits
    /\ Len(f) > 1 => f[1] # "0"
    /\ Len(f) = 3 => DecVal(f[1]) * 100 + DecVal(f[2]) * 10 + DecVal(f[3]) <= 255

OctetValue(f) ==
    IF Len(f) = 1 THEN DecVal(f[1])
    ELSE IF Len(f) = 2 THEN DecVal(f[1]) * 10 + DecVal(f[2])
    ELSE DecVal(f[1]) * 100 + DecVal(f[2]) * 10 + DecVal(f[3])

IsDottedQuad(t) ==
    LET f == Split(t, ".", <<>>)
    IN  Len(f) = 4 /\ \A i \in 1..4 : IsOctetText(f[i])

DottedQuadValue(t) ==
    LET f == Split(t, ".", <<>>) IN [i \in 1..4 |-> OctetValue(f[i])]

-----------------------------------------------------------------------------
(* Properties *)

EntryOps == {"Ipv4Addr", "Ipv6Addr", "IpAddr", "ScionAddr", "SocketAddrV4",
             "SocketAddrV6", "SocketAddrScion", "SocketAddr"}

\* the AddrKind of an entry point
KindOf(op) ==
    CASE op = "Ipv4Addr" -> "Ipv4"
      [] op = "Ipv6Addr" -> "Ipv6"
      [] op = "IpAddr" -> "Ip"
      [] op = "ScionAddr" -> "Scion"
      [] op = "SocketAddrV4" -> "SocketV4"
      [] op = "SocketAddrV6" -> "SocketV6"
      [] op = "SocketAddrScion" -> "SocketScion"
      [] op = "SocketAddr" -> "Socket"

\* what the reader of an entry point returns on a new Parser over t
ReaderOf(op, t) ==
    CASE op = "Ipv4Addr" -> Quiet(read_ipv4_addr(t, 1))
      [] op = "Ipv6Addr" -> Quiet(read_ipv6_addr(t, 1))
      [] op = "IpAddr" -> Quiet(read_ip_addr(t, 1))
      [] op = "ScionAddr" -> read_scion_addr(t, 1)
      [] op = "SocketAddrV4" -> Quiet(read_socket_addr_v4(t, 1))
      [] op = "SocketAddrV6" -> Quiet(read_socket_addr_v6(t, 1))
      [] op = "SocketAddrScion" -> read_socket_addr_scion(t, 1)
      [] op = "SocketAddr" -> read_socket_addr(t, 1)

\* C1: an entry point returns Ok(v) exactly when its reader returns v and
\* the cursor is at the end of the input (and, for Ipv4Addr, the input has
\* at most 15 bytes); otherwise it returns Err with its own AddrKind and
\* no value.
C1_ParseContract ==
    last.op \in EntryOps =>
        LET r == ReaderOf(last.op, input)
            accepted == /\ r.ok
                        /\ r.pos = Len(input) + 1
                        /\ (last.op = "Ipv4Addr" => Len(input) <= 15)
        IN  /\ last.ok <=> accepted
            /\ last.ok => last.val = r.val /\ last.err = "none"
            /\ ~last.ok => last.val = <<>> /\ last.err = KindOf(last.op)

\* C1 witness: a reader that succeeded on a proper prefix, so that the
\* entry point fails with its kind
C1_Witness ==
    /\ last.op = "Ipv6Addr"
    /\ ~last.ok
    /\ last.err = "Ipv6"
    /\ read_ipv6_addr(input, 1).ok
    /\ cursor <= Len(input)

ReaderOps == {"read_given_char", "read_separator", "read_number",
              "read_ipv4_addr", "read_ipv6_addr", "read_scion_addr",
              "read_port", "read_scope_id", "read_socket_addr_v4",
              "read_socket_addr_v6", "read_socket_addr_scion",
              "read_ip_addr", "read_socket_addr"}

\* C2: a reader that returns None leaves the cursor where it was before
\* the call, and peek_char never moves the cursor.
C2_FailureRestoresCursor ==
    /\ last.op \in ReaderOps /\ ~last.ok => cursor = last.before
    /\ last.op = "peek_char" => cursor = last.before

\* C2 witness: read_scion_addr failed after it had read the ISD, the '-'
\* and the AS (whose line it printed), called behind the start of the input
C2_Witness ==
    /\ last.op = "read_scion_addr"
    /\ ~last.ok
    /\ stdout # <<>>
    /\ last.before > 1

\* C3: Ipv4Addr::from_str accepts exactly the texts of four decimal octets
\* (1 to 3 digits, at most 255, no leading zero on a longer group)
\* separated by '.', and the octets of the result are their values in order.
C3_Ipv4Grammar ==
    last.op = "Ipv4Addr" =>
        /\ last.ok <=> IsDottedQuad(input)
        /\ last.ok => last.val = DottedQuadValue(input)

\* C3 witness: "01.0.0.1" was rejected
C3_Witness ==
    /\ last.op = "Ipv4Addr"
    /\ input = <<"0", "1", ".", "0", ".", "0", ".", "1">>
    /\ ~last.ok

-----------------------------------------------------------------------------
(* Display of IP addresses (no width, no precision) *)

\* Ipv6Addr::to_ipv4_mapped with the 0xff, 0xff test left out: no address
\* counts as mapped
to_ipv4_mapped_never(octets) == None

\* Ipv6Addr::to_ipv4_mapped
to_ipv4_mapped(octets) ==
    IF SubSeq(octets, 1, 12) = <<0, 0, 0, 0, 0, 0, 0, 0, 0, 0, 255, 255>>
    THEN Some(SubSeq(octets, 13, 16))
    ELSE None

\* Display for Ipv4Addr: write!(fmt, "{}.{}.{}.{}", octets[0], ..)
Ipv4Addr_fmt(octets) ==
    DigitsOf(octets[1], 10) \o <<".">> \o DigitsOf(octets[2], 10) \o <<".">>
        \o DigitsOf(octets[3], 10) \o <<".">> \o DigitsOf(octets[4], 10)

\* Span::default()
Span_default == [start |-> 0, len |-> 0]

RECURSIVE zeroes_from(_, _, _, _)
\* the loop that finds the inner 0 span, from segment i (counted from 0) on
zeroes_from(segs, i, longest, current) ==
    IF i = Len(segs) THEN longest
    ELSE IF segs[i + 1] = 0
    THEN With([start |-> IF current.len = 0 THEN i ELSE current.start,
               len |-> current.len + 1],
              LAMBDA cur :
                zeroes_from(segs, i + 1,
                            IF cur.len > longest.len THEN cur ELSE longest,
                            cur))
    ELSE zeroes_from(segs, i + 1, longest, Span_default)

RECURSIVE fmt_subslice(_)
\* fmt_subslice: the chunk's segments as {:x}, ':' between them
fmt_subslice(chunk) ==
    IF chunk = <<>> THEN <<>>
    ELSE IF Len(chunk) = 1 THEN DigitsOf(chunk[1], 16)
    ELSE DigitsOf(chunk[1], 16) \o <<":">> \o fmt_subslice(Tail(chunk))

\* Display for Ipv6Addr compressing a zero span of any length
Ipv6Addr_fmt_any_span(octets) ==
    With(segments(octets), LAMBDA segs :
    With(to_ipv4_mapped(octets), LAMBDA ipv4 :
        IF ipv4.ok
        THEN <<":", ":", "f", "f", "f", "f", ":">> \o Ipv4Addr_fmt(ipv4.val)
        ELSE With(zeroes_from(segs, 0, Span_default, Span_default),
                  LAMBDA zeroes :
            IF zeroes.len > 0
            THEN fmt_subslice(SubSeq(segs, 1, zeroes.start))
                     \o <<":", ":">>
                     \o fmt_subslice(SubSeq(segs, zeroes.start + zeroes.len + 1,
                                            8))
            ELSE fmt_subslice(segs))))

\* Display for Ipv6Addr
Ipv6Addr_fmt(octets) ==
    With(segments(octets), LAMBDA segs :
    With(to_ipv4_mapped(octets), LAMBDA ipv4 :
        IF ipv4.ok
        THEN <<":", ":", "f", "f", "f", "f", ":">> \o Ipv4Addr_fmt(ipv4.val)
        ELSE With(zeroes_from(segs, 0, Span_default, Span_default),
                  LAMBDA zeroes :
            IF zeroes.len > 1
            THEN fmt_subslice(SubSeq(segs, 1, zeroes.start))
                     \o <<":", ":">>
                     \o fmt_subslice(SubSeq(segs, zeroes.start + zeroes.len + 1,
                                            8))
            ELSE fmt_subslice(segs))))

\* segment values of the displayed addresses: zero and two others
SegValues == {0, 1, 65535}

\* values of the last two segments of the IPv4-mapped addresses and of the
\* addresses around them
TailValues == {0, 1, 16, 255, 256, 767, 2571, 49162, 65535}

Display6Values ==
    { Ipv6FromSegments(seg) : seg \in [1..8 -> SegValues] }
    \cup { Ipv6FromSegments(<<0, 0, 0, 0, 0, f, x, y>>) :
               f \in {0, 65535}, x \in TailValues, y \in TailValues }
    \cup { Ipv6FromSegments(<<x, 0, 0, y, 0, 0, 0, x>>) :
               x \in TailValues, y \in TailValues }

InitDisplay ==
    /\ input = <<>>
    /\ cursor = 1
    /\ last = NoCall
    /\ stdout = <<>>
    /\ value \in Display6Values

\* value.to_string() of an Ipv6Addr
FmtIpv6Addr ==
    /\ last.op = "new"
    /\ last' = [op |-> "fmt", ok |-> TRUE, val |-> Ipv6Addr_fmt(value),
                before |-> 1, panic |-> FALSE]
    /\ UNCHANGED <<input, cursor, stdout, value>>

NextDisplay == FmtIpv6Addr

SpecDisplay == InitDisplay /\ [][NextDisplay]_vars

-----------------------------------------------------------------------------
(* Properties of Display *)

LowerHexDigits == DecDigits \cup {"a", "b", "c", "d", "e", "f"}

RECURSIVE HexValueOf(_, _)
\* the value of a text of hex digits, acc the value read so far
HexValueOf(t, acc) ==
    IF t = <<>> THEN acc
    ELSE HexValueOf(Tail(t), acc * 16 + to_digit(Head(t), 16).val)

\* f is the segment v in lowercase hex without leading zeros
IsShortHexOf(f, v) ==
    /\ Len(f) \in 1..4
    /\ \A i \in 1..Len(f) : f[i] \in LowerHexDigits
    /\ Len(f) > 1 => f[1] # "0"
    /\ HexValueOf(f, 0) = v

\* the maximal runs of zero segments, as <<first, last>>
ZeroRuns(segs) ==
    { r \in (1..8) \X (1..8) :
        /\ r[1] <= r[2]
        /\ \A i \in r[1]..r[2] : segs[i] = 0
        /\ r[1] > 1 => segs[r[1] - 1] # 0
        /\ r[2] < 8 => segs[r[2] + 1] # 0 }

RunLen(r) == r[2] - r[1] + 1

\* the runs "::" may stand for: at least two long, none longer, none as long
\* before it
CompressibleRuns(segs) ==
    { r \in ZeroRuns(segs) :
        /\ RunLen(r) >= 2
        /\ \A q \in ZeroRuns(segs) :
               RunLen(q) < RunLen(r) \/ (RunLen(q) = RunLen(r) /\ q[1] >= r[1]) }

\* the fields between the ':' of text are the segments listed in idx
FieldsAre(fields, segs, idx) ==
    /\ Len(fields) = Len(idx)
    /\ \A i \in 1..Len(idx) :
           IF idx[i] = 0 THEN fields[i] = <<>>
           ELSE IsShortHexOf(fields[i], segs[idx[i]])

\* the segment numbers first..last, or one empty field (0) when there is none
IndexRange(first, lst) ==
    IF first > lst THEN <<0>> ELSE [i \in 1..(lst - first + 1) |-> first + i - 1]

IsMapped(segs) == SubSeq(segs, 1, 6) = <<0, 0, 0, 0, 0, 65535>>

\* C4: the Display text of an address that is not IPv4-mapped is its eight
\* segments in lowercase hex without leading zeros, ':' between them, with
\* exactly the earliest longest run of two or more zero segments replaced
\* by "::", and nothing replaced when no run is two long.
C4_Ipv6ZeroRun ==
    last.op = "fmt" /\ ~IsMapped(segments(value)) =>
        LET segs == segments(value)
            fields == Split(last.val, ":", <<>>)
            runs == CompressibleRuns(segs)
        IN  IF runs = {}
            THEN FieldsAre(fields, segs, IndexRange(1, 8))
            ELSE \E r \in runs :
                    FieldsAre(fields, segs,
                              IndexRange(1, r[1] - 1) \o <<0>>
                                  \o IndexRange(r[2] + 1, 8))

\* C4 witness: 1:0:1:1:1:1:1:1 was printed unchanged
C4_Witness ==
    /\ last.op = "fmt"
    /\ segments(value) = <<1, 0, 1, 1, 1, 1, 1, 1>>
    /\ last.val = <<"1", ":", "0", ":", "1", ":", "1", ":", "1", ":", "1", ":", "1", ":", "1">>

\* C5: an address with segments [0,0,0,0,0,0xffff,x,y] is printed as
\* "::ffff:" followed by the four octets of x and y in dotted decimal, and
\* the text of no other address contains a '.'.
C5_Ipv4MappedDisplay ==
    last.op = "fmt" =>
        IF IsMapped(segments(value))
        THEN /\ SubSeq(last.val, 1, 7) = <<":", ":", "f", "f", "f", "f", ":">>
             /\ IsDottedQuad(SubSeq(last.val, 8, Len(last.val)))
             /\ DottedQuadValue(SubSeq(last.val, 8, Len(last.val)))
                    = SubSeq(value, 13, 16)
        ELSE \A i \in 1..Len(last.val) : last.val[i] # "."

\* C5 witness: [0,0,0,0,0,0xffff,0xc00a,0x2ff] was printed
C5_Witness ==
    /\ last.op = "fmt"
    /\ segments(value) = <<0, 0, 0, 0, 0, 65535, 49162, 767>>
    /\ last.val = <<":", ":", "f", "f", "f", "f", ":", "1", "9", "2", ".", "1", "0", ".", "2", ".", "2", "5", "5">>

-----------------------------------------------------------------------------
(* IPv6 texts *)

\* number of ':'-separated pieces of the enumerated texts
MaxV6Pieces == 9

\* number of pieces of a text that are not a hex group
MaxOddPieces == 4

\* a piece is a hex group ("g"), empty ("e": two adjacent ':'), or an IPv4
\* literal ("v")
PieceKinds == {"g", "e", "v"}

\* the text of the piece at place i: the hex groups differ by place
PieceText(kind, i) ==
    CASE kind = "g" -> <<HexLower[i + 1]>>
      [] kind = "e" -> <<>>
      [] kind = "v" -> <<"1", ".", "2", ".", "3", ".", "4">>

RECURSIVE JoinPieces(_, _)
\* the pieces from place i on, ':' between them
JoinPieces(p, i) ==
    IF i = Len(p) THEN PieceText(p[i], i)
    ELSE PieceText(p[i], i) \o <<":">> \o JoinPieces(p, i + 1)

PieceSeqs(n) ==
    { p \in [1..n -> PieceKinds] :
        Cardinality({i \in 1..n : p[i] # "g"}) <= MaxOddPieces }

V6Samples ==
    { <<"0", "0", "0", "1", ":", "0", "F", "e", "0", ":", ":", "0", "0", "f", "f", ":", "1", "2", "3", "4", ":", "5", ":", "6", ":", "7">>, <<"f", "f", "f", "f", ":", "f", "f", "f", "f", ":", "f", "f", "f", "f", ":", "f", "f", "f", "f", ":", "f", "f", "f", "f", ":", "f", "f", "f", "f", ":", "f", "f", "f", "f", ":", ":">>,
      <<":", ":", "0", "0", "0", "a", ":", "f", "f", "f", "f", ":", "f", "f", "f", "f", ":", "f", "f", "f", "f", ":", "f", "f", "f", "f", ":", "f", "f", "f", "f", ":", "f", "f", "f", "f">>, <<"0", "0", "0", "1", ":", "0", "2", ":", "0", "0", "3", ":", "4", ":", "5", ":", "6", ":", "7", ":", "0", "0", "0", "8">>,
      <<"1", ":", "2", ":", "3", ":", "4", ":", ":", "5", ":", "6", ":", "7", ":", "8">>, <<"1", ":", "2", ":", "3", ":", ":", "1", "2", "3", "4", "5">>, <<"1", ":", "2", ":", "3", ":", "4", ":", "5", ":", "6", ":", "7", ":", "8", ":", "9">>,
      <<>>, <<":">>, <<":", ":", ":">>, <<"1", ":", ":", ":", "2">>,
        <<":", ":", "1", ".", "2", ".", "3", ".", "4", ":", "5">>,
        <<":", ":", "f", "f", "f", "f", ":", "1", ".", "2", ".", "3", ".", "4">>,
      <<":", ":", "f", "f", "f", "f", ":", "1", "9", "2", ".", "1", "0", ".", "2", ".", "2", "5", "5">>, <<"1", "2", "3", "4", "5", ":", ":", "1">>, <<":", ":", "1", ".", "2", ".", "3">>, <<":", ":", "1", ".", "2", ".", "3", ".", "4", ".", "5">>,
      <<":", ":", "2", "5", "6", ".", "1", ".", "1", ".", "1">>,
        <<"0", "0", "a", "b", ":", ":">>, <<":", ":", "g">>,
        <<"A", "b", "C", "d", ":", ":", "0", "0", "1", "0">>,
        <<":", ":", "0", "1", ".", "2", ".", "3", ".", "4">>,
      <<"1", ":", "2", ":", "3", ":", "4", ":", "5", ":", "6", ":", "7", ":", "8", ":">>,
        <<":", "1", ":", "2", ":", "3", ":", "4", ":", "5", ":", "6", ":", "7", ":", "8">>,
        <<"1", ":", "2", ":", "3", ":", "4", ":", "5", ":", "6", ":", "7", ":", "8", " ">>,
      <<":", ":", "1", "%", "1">>, <<"[", ":", ":", "1", "]">>,
        <<"f", "f", "f", "f", ":", "f", "f", "f", "f", ":", "f", "f", "f", "f", ":", "f", "f", "f", "f", ":", "f", "f", "f", "f", ":", "f", "f", "f", "f", ":", "f", "f", "f", "f", ":", "f", "f", "f", "f">>,
      <<"f", "f", "f", "f", ":", "f", "f", "f", "f", ":", "f", "f", "f", "f", ":", "f", "f", "f", "f", ":", "f", "f", "f", "f", ":", "f", "f", "f", "f", ":", "2", "5", "5", ".", "2", "5", "5", ".", "2", "5", "5", ".", "2", "5", "5">>, <<"1", ":", "2", ":", "3", ":", "4", ":", "5", ":", "6", ":", "7", ":", "1", ".", "2">>,
      <<":", ":", "1", ".", "2", ".", "3", ".", "4", ":", ":">>,
        <<"1", ".", "2", ".", "3", ".", "4">>,
        <<"0", ":", "0", ":", "0", ":", "0", ":", "0", ":", "0", ":", "0", ":", "0">>,
        <<":", ":", ".", "1", ".", "2", ".", "3">> }

V6Inputs ==
    { JoinPieces(p, 1) : p \in UNION {PieceSeqs(n) : n \in 1..MaxV6Pieces} }
        \cup V6Samples

InitV6 == InitOn(V6Inputs)

NextV6 == ParseIpv6Addr

SpecV6 == InitV6 /\ [][NextV6]_vars

-----------------------------------------------------------------------------
(* Properties of the IPv6 grammar *)

\* the places of t where "::" starts (":::" holds two of them)
DoubleColons(t) == {i \in 1..(Len(t) - 1) : t[i] = ":" /\ t[i + 1] = ":"}

HasDot(f) == \E i \in 1..Len(f) : f[i] = "."

RECURSIVE GroupCount(_)
\* the 16-bit groups the fields stand for: a dotted field stands for two,
\* an empty field for none
GroupCount(fields) ==
    IF fields = <<>> THEN 0
    ELSE (IF Head(fields) = <<>> THEN 0
          ELSE IF HasDot(Head(fields)) THEN 2 ELSE 1)
         + GroupCount(Tail(fields))

\* C6: Ipv6Addr::from_str rejects every text with two occurrences of "::"
\* and every text without "::" that has fewer than 8 groups, and a text
\* with "::" that it accepts has at most 7 groups in all.
C6_SingleCompression ==
    last.op = "Ipv6Addr" =>
        LET groups == GroupCount(Split(input, ":", <<>>))
        IN  /\ Cardinality(DoubleColons(input)) >= 2 => ~last.ok
            /\ DoubleColons(input) = {} /\ groups < 8 => ~last.ok
            /\ last.ok /\ DoubleColons(input) # {} => groups <= 7

\* C6 witness: a text with two "::" was rejected
C6_Witness ==
    /\ last.op = "Ipv6Addr"
    /\ input = <<"1", ":", ":", "3", ":", ":", "5">>
    /\ ~last.ok

\* C7: a text with a dotted-decimal IPv4 literal that Ipv6Addr::from_str
\* accepts has the literal as its last component and nowhere else, the
\* literal fills the last two segments (a*256+b, c*256+d), and it takes
\* two of the 8 (7 with "::") group slots.
C7_Ipv4OnlyLast ==
    last.op = "Ipv6Addr" /\ last.ok /\ HasDot(input) =>
        LET fields == Split(input, ":", <<>>)
            quad == fields[Len(fields)]
        IN  /\ \A i \in 1..(Len(fields) - 1) : ~HasDot(fields[i])
            /\ IsDottedQuad(quad)
            /\ segments(last.val)[7]
                   = DottedQuadValue(quad)[1] * 256 + DottedQuadValue(quad)[2]
            /\ segments(last.val)[8]
                   = DottedQuadValue(quad)[3] * 256 + DottedQuadValue(quad)[4]
            /\ GroupCount(fields)
                   <= IF DoubleColons(input) = {} THEN 8 ELSE 7

\* C7 witness: six groups and an IPv4 literal were accepted
C7_Witness ==
    /\ last.op = "Ipv6Addr"
    /\ last.ok
    /\ HasDot(input)
    /\ DoubleColons(input) = {}

-----------------------------------------------------------------------------
(* ISD and AS packed into an IA *)

IsdValues == {0, 1, 19, 255, 32768, 65535}

\* the 16-bit groups the AS numbers are made of
AsLimbValues == {0, 1, 4199, 32768, 65450, 65535}

\* an ISD (u16) and an AS number below 2^48 (u64)
IAInputs ==
    [isd : IsdValues,
     as_ : {<<0, a, b, c>> : a \in AsLimbValues, b \in AsLimbValues,
                             c \in AsLimbValues}]

InitIA ==
    /\ input = <<>>
    /\ cursor = 1
    /\ last = NoCall
    /\ stdout = <<>>
    /\ value \in IAInputs

\* a call of one of the packing functions, last keeps what it returned
Returned(op, v) ==
    /\ last' = [op |-> op, ok |-> TRUE, val |-> v, before |-> 1,
                panic |-> FALSE]
    /\ UNCHANGED <<input, cursor, stdout, value>>

\* make_ia(isd, as_)
MakeIa == last.op = "new" /\ Returned("make_ia", make_ia(value.isd, value.as_))

\* isd_from_ia(ia) of the IA just made
IsdFromIa == last.op = "make_ia" /\ Returned("isd_from_ia", isd_from_ia(last.val))

\* as_from_ia(ia) of the IA just made
AsFromIa == last.op = "make_ia" /\ Returned("as_from_ia", as_from_ia(last.val))

NextIA == MakeIa \/ IsdFromIa \/ AsFromIa

SpecIA == InitIA /\ [][NextIA]_vars

-----------------------------------------------------------------------------
(* Properties of the IA packing *)

\* the u64 written in decimal
U64Of(text) == read_number(text, 1, 10, {}, TRUE, 64).val

\* C8: for an ISD and an AS below 2^48, make_ia is isd * 2^48 + as,
\* isd_from_ia and as_from_ia of it give back the ISD and the AS, and
\* make_ia(19, 281105609592935) is 5629130167095399.
C8_IaRoundTrip ==
    /\ last.op = "make_ia" =>
           /\ last.val = <<value.isd, value.as_[2], value.as_[3], value.as_[4]>>
           /\ value.isd = 19 /\ value.as_ = U64Of(<<"2", "8", "1", "1", "0", "5", "6", "0", "9", "5", "9", "2", "9", "3", "5">>)
                  => last.val = U64Of(<<"5", "6", "2", "9", "1", "3", "0", "1", "6", "7", "0", "9", "5", "3", "9", "9">>)
    /\ last.op = "isd_from_ia" => last.val = value.isd
    /\ last.op = "as_from_ia" => last.val = value.as_

\* C8 witness: the AS of make_ia(19, 281105609592935) was taken out again
C8_Witness ==
    /\ last.op = "as_from_ia"
    /\ value.isd = 19
    /\ value.as_ = U64Of(<<"2", "8", "1", "1", "0", "5", "6", "0", "9", "5", "9", "2", "9", "3", "5">>)
    /\ last.val = U64Of(<<"2", "8", "1", "1", "0", "5", "6", "0", "9", "5", "9", "2", "9", "3", "5">>)

-----------------------------------------------------------------------------
(* Display of AS numbers and SCION addresses *)

RECURSIVE DivLimbs(_, _, _)
\* x / d on limbs, rem the remainder carried in: the quotient's limbs
\* followed by the remainder
DivLimbs(x, d, rem) ==
    IF x = <<>> THEN <<rem>>
    ELSE <<(rem * Base + Head(x)) \div d>>
             \o DivLimbs(Tail(x), d, (rem * Base + Head(x)) % d)

RECURSIVE format_dec(_)
\* format!("{}", x) of an unsigned integer given by its limbs
format_dec(x) ==
    With(DivLimbs(x, 10, 0), LAMBDA qr :
        IF \A i \in 1..Len(x) : qr[i] = 0
        THEN <<HexLower[qr[Len(x) + 1] + 1]>>
        ELSE format_dec(SubSeq(qr, 1, Len(x)))
                 \o <<HexLower[qr[Len(x) + 1] + 1]>>)

\* MAX_BGP_AS_NR as u64: 4294967295
MAX_BGP_AS_NR == <<0, 0, 65535, 65535>>

RECURSIVE LimbsLeq(_, _)
\* x <= y on integers of the same width
LimbsLeq(x, y) ==
    IF x = <<>> THEN TRUE
    ELSE IF Head(x) # Head(y) THEN Head(x) < Head(y)
    ELSE LimbsLeq(Tail(x), Tail(y))

RECURSIVE as_to_dotted_hex_from(_, _, _, _, _)
\* the for loop of as_to_dotted_hex from the character at pos (counted
\* from 0) on
as_to_dotted_hex_from(hex_str, pos, result, begin, zeros) ==
    IF pos = Len(hex_str) THEN result
    ELSE With(IF pos # 0 /\ pos % 4 = 0 /\ ~begin
              THEN [result |-> Append(result, ":"), begin |-> TRUE, zeros |-> 0]
              ELSE [result |-> result, begin |-> begin, zeros |-> zeros],
              LAMBDA st :
        IF st.begin
        THEN IF hex_str[pos + 1] = "0"
             THEN IF st.zeros + 1 = 4
                  THEN as_to_dotted_hex_from(hex_str, pos + 1,
                           st.result \o <<"0", ":">>, TRUE, 0)
                  ELSE as_to_dotted_hex_from(hex_str, pos + 1, st.result,
                                             st.begin, st.zeros + 1)
             ELSE as_to_dotted_hex_from(hex_str, pos + 1,
                      Append(st.result, hex_str[pos + 1]), FALSE, 0)
        ELSE as_to_dotted_hex_from(hex_str, pos + 1,
                 Append(st.result, hex_str[pos + 1]), st.begin, st.zeros))

\* as_to_dotted_hex
as_to_dotted_hex(as_num) ==
    as_to_dotted_hex_from(format_x(as_num), 0, <<>>, TRUE, 0)

\* format_AS that prints every AS number in hex
format_AS_hex(asn) == as_to_dotted_hex(asn)

\* format_AS
format_AS(asn) ==
    IF LimbsLeq(asn, MAX_BGP_AS_NR) THEN format_dec(asn)
    ELSE as_to_dotted_hex(asn)

\* Display for IpAddr
IpAddr_fmt(ip) ==
    IF ip.tag = "V4" THEN Ipv4Addr_fmt(ip.addr) ELSE Ipv6Addr_fmt(ip.addr)

\* Display for ScionAddr: format!("{}-{},{}", isd, format_AS(as), host)
ScionAddr_fmt(a) ==
    DigitsOf(get_isd(a), 10) \o <<"-">> \o format_AS(get_as(a)) \o <<",">>
        \o IpAddr_fmt(a.host)

\* Display for SocketAddrScion: format!("{}:{}", self.addr, self.port)
SocketAddrScion_fmt(s) ==
    ScionAddr_fmt(s.addr) \o <<":">> \o DigitsOf(s.port, 10)

\* Display for SocketAddrV4 without width or precision: "{}:{}"
SocketAddrV4_fmt(a) == Ipv4Addr_fmt(a.ip) \o <<":">> \o DigitsOf(a.port, 10)

\* Display for SocketAddrV6 that never writes the scope id
SocketAddrV6_fmt_no_scope(a) ==
    <<"[">> \o Ipv6Addr_fmt(a.ip) \o <<"]", ":">> \o DigitsOf(a.port, 10)

\* Display for SocketAddrV6 without width or precision: "[{}]:{}" where the
\* scope id is 0, "[{}%{}]:{}" otherwise
SocketAddrV6_fmt(a) ==
    IF a.scope_id = ZERO(32)
    THEN <<"[">> \o Ipv6Addr_fmt(a.ip) \o <<"]", ":">> \o DigitsOf(a.port, 10)
    ELSE <<"[">> \o Ipv6Addr_fmt(a.ip) \o <<"%">> \o format_dec(a.scope_id)
             \o <<"]", ":">> \o DigitsOf(a.port, 10)

\* Display for SocketAddr
SocketAddr_fmt(a) ==
    IF a.tag = "V4" THEN SocketAddrV4_fmt(a.sock)
    ELSE IF a.tag = "V6" THEN SocketAddrV6_fmt(a.sock)
    ELSE SocketAddrScion_fmt(a.sock)

\* ToString::to_string of a value of type ty
to_string(ty, v) ==
    CASE ty = "Ipv4Addr" -> Ipv4Addr_fmt(v)
      [] ty = "Ipv6Addr" -> Ipv6Addr_fmt(v)
      [] ty = "IpAddr" -> IpAddr_fmt(v)
      [] ty = "SocketAddrV4" -> SocketAddrV4_fmt(v)
      [] ty = "SocketAddrV6" -> SocketAddrV6_fmt(v)
      [] ty = "ScionAddr" -> ScionAddr_fmt(v)
      [] ty = "SocketAddrScion" -> SocketAddrScion_fmt(v)
      [] ty = "SocketAddr" -> SocketAddr_fmt(v)

\* FromStr::from_str for the type ty
from_str(ty, s) ==
    CASE ty = "Ipv4Addr" -> Ipv4Addr_parse_ascii(s)
      [] ty = "Ipv6Addr" -> Ipv6Addr_parse_ascii(s)
      [] ty = "IpAddr" -> IpAddr_parse_ascii(s)
      [] ty = "SocketAddrV4" -> SocketAddrV4_parse_ascii(s)
      [] ty = "SocketAddrV6" -> SocketAddrV6_parse_ascii(s)
      [] ty = "ScionAddr" -> ScionAddr_parse_ascii(s)
      [] ty = "SocketAddrScion" -> SocketAddrScion_parse_ascii(s)
      [] ty = "SocketAddr" -> SocketAddr_parse_ascii(s)

\* to_string() of the value a from_str call returned; value keeps the
\* value and its type
CallToString ==
    /\ last.op \in EntryOps
    /\ last.ok
    /\ value' = [type |-> last.op, val |-> last.val]
    /\ last' = [op |-> "to_string", ok |-> TRUE,
                val |-> to_string(last.op, last.val), err |-> "none",
                before |-> 1, panic |-> FALSE]
    /\ UNCHANGED <<input, cursor, stdout>>

\* a from_str call on the text to_string returned
Reparsed(res) ==
    /\ input' = last.val
    /\ cursor' = res.pos
    /\ last' = [op |-> "from_str", ok |-> res.ok, val |-> res.val,
                err |-> res.err, before |-> 1, panic |-> res.panic]
    /\ stdout' = stdout \o res.out
    /\ UNCHANGED value

FromStrAgain ==
    last.op = "to_string" /\ Reparsed(from_str(value.type, last.val))

-----------------------------------------------------------------------------
(* SCION texts *)

\* number of ':'-separated groups of the enumerated AS texts
MaxASGroups == 4

\* the groups of the AS texts: none, a short one, a 4-digit one, a 5-digit one
AsGroups == { <<>>, <<"1">>, <<"f", "f", "a", "a">>, <<"1", "2", "3", "4", "5">> }

AsTexts == UNION {Joined(AsGroups, <<":">>, n) : n \in 1..MaxASGroups}

IsdTexts == { <<"1", "9">>, <<"0", "6", "5", "5", "3", "5">>, <<"6", "5", "5", "3", "6">> }

ScionHosts == { <<"1", "2", "7", ".", "0", ".", "0", ".", "1">>, <<"[", ":", ":", "1", "]">> }

ScionPorts == { <<>>, <<":", "5", "3">> }

ScionSamples ==
    { <<"1", "9", "-", "f", "f", "a", "a", ":", "1", ":", "1", "0", "6", "7", ",", "1", "2", "7", ".", "0", ".", "0", ".", "1", ":", "5", "3">>, <<"1", "-", "1", ":", "2", ",", "1", "2", "7", ".", "0", ".", "0", ".", "1">>, <<"1", "9", "-", ",", "1", "2", "7", ".", "0", ".", "0", ".", "1">>,
      <<"1", "9", "-", ":", "5", ",", "1", "2", "7", ".", "0", ".", "0", ".", "1">>,
        <<"1", "9", "-", "f", "f", "a", "a", ":", "1", ":", "1", "0", "6", "7", ",", "[", ":", ":", "1", "]", ":", "5", "3">>, <<"1", "9", "-", "f", "f", "a", "a", ":", "1", ":", "1", "0", "6", "7">>,
      <<"1", "9", "f", "f", "a", "a", ":", "1", ":", "1", "0", "6", "7", ",", "1", "2", "7", ".", "0", ".", "0", ".", "1">>, <<"-", "1", ",", "1", ".", "2", ".", "3", ".", "4">>, <<"1", "9", "-", "F", "F", "A", "A", ":", "1", ":", "1", "0", "6", "7", ",", "1", ".", "2", ".", "3", ".", "4">>,
      <<"1", "9", "-", "0", ":", "1", ":", "f", ",", "1", ".", "2", ".", "3", ".", "4">>,
        <<"1", "9", "-", "f", "f", "a", "a", ":", "1", ":", "1", "0", "6", "7", ",", "1", ".", "2", ".", "3", ".", "4", "]">>, <<"1", "9", "-", "1", ",", "[", "1", ".", "2", ".", "3", ".", "4">>,
      <<"0", "0", "0", "0", "0", "1", "9", "-", "1", ",", "1", ".", "2", ".", "3", ".", "4">>,
        <<"1", "9", "-", "1", " ", ",", "1", ".", "2", ".", "3", ".", "4">>,
        <<"1", "9", "-", "g", ",", "1", ".", "2", ".", "3", ".", "4">>,
      <<"1", "9", "-", "1", ":", "g", ":", "1", ",", "1", ".", "2", ".", "3", ".", "4">>,
        <<"1", "9", "-", "1", ",", ":", ":", "1">>,
        <<"1", "9", "-", "1", ",", "[", ":", ":", "f", "f", "f", "f", ":", "1", ".", "2", ".", "3", ".", "4", "]", ":", "8", "0">>,
      <<"1", "9", "-", "1", ",", "1", ".", "2", ".", "3", ".", "4", ":", "6", "5", "5", "3", "6">>, <<"1", "9", "-", "1", ":", "2", ":", "3", ",", "1", ".", "2", ".", "3", ".", "4", ",">>, <<"1", "9", "-", "1", "-", "2", ",", "1", ".", "2", ".", "3", ".", "4">>,
      <<"1", "-", "1", ":", "2", ",", "1", "2", "7", ".", "0", ".", "0", ".", "1", ":", "5", "3">>, <<"1", "9", "-", ",", "1", "2", "7", ".", "0", ".", "0", ".", "1", ":", "5", "3">>, <<"1", "9", "-", ":", "5", ",", "1", "2", "7", ".", "0", ".", "0", ".", "1", ":", "5", "3">>,
      <<>>, <<"1", "9", "-">>, <<"1", "9">>, <<"1", "9", "-", "1", ",">>,
        <<"1", "9", "-", "1", ",", "[">>, <<"1", "9", "-", "1", ",", "[", "]">>,
      <<"1", "9", "-", "0", "F", "0", ":", "0", ":", "1", ",", "1", ".", "2", ".", "3", ".", "4">>, <<"1", "9", "-", "0", "0", "a", ",", "1", ".", "2", ".", "3", ".", "4">>, <<"1", "9", "-", "0", ":", "0", ":", "0", ",", "1", ".", "2", ".", "3", ".", "4", ":", "1">>,
      <<"1", "9", "-", "A", ":", "b", ":", "C", ",", "[", ":", ":", "1", "]", ":", "1">>, <<"1", "9", "-", "0", "0", "0", "1", ":", "0", "0", "0", "0", ":", "f", "f", "f", "f", ",", "1", ".", "2", ".", "3", ".", "4", ":", "1">>,
      <<"0", "0", "0", "0", "0", "1", "9", "-", "1", ",", "1", ".", "2", ".", "3", ".", "4", ":", "5", "3">>, <<"0", "0", "0", "0", "1", "9", "-", "f", "f", "a", "a", ":", "1", ":", "1", "0", "6", "7", ",", "1", ".", "2", ".", "3", ".", "4", ":", "5", "3">>,
      <<"0", "-", "1", ":", "0", ":", "0", ",", "1", ".", "2", ".", "3", ".", "4", ":", "6", "5", "5", "3", "5">>, <<"1", "9", "-", "1", ",", "1", ".", "2", ".", "3", ".", "4", ":", "0", "0", "0", "5", "3">>, <<"6", "5", "5", "3", "5", "-", "f", "f", "f", "f", ":", "f", "f", "f", "f", ":", "f", "f", "f", "f", ",", "2", "5", "5", ".", "2", "5", "5", ".", "2", "5", "5", ".", "2", "5", "5", ":", "0">>,
      <<"9", "9", "9", "9", "9", "-", "1", ",", "1", ".", "2", ".", "3", ".", "4", ":", "5", "3">>, <<"1", "9", "-", "f", "f", "a", "a", ":", "1", ":", "0", ",", "1", ".", "2", ".", "3", ".", "4", ":", "5", "3">>, <<"1", "9", "-", "f", "f", "a", "a", ":", "0", ":", "1", ",", "1", ".", "2", ".", "3", ".", "4", ":", "5", "3">>,
      <<"1", "9", "-", "1", ":", "0", ":", "0", ",", "1", ".", "2", ".", "3", ".", "4", ":", "1">>, <<"1", "9", "-", "1", "0", ",", "1", ".", "2", ".", "3", ".", "4">>, <<"1", "9", "-", "0", ":", "f", "f", "f", "f", ":", "f", "f", "f", "f", ",", "[", ":", ":", "1", "]", ":", "5", "3">>, <<"1", "9", "-", "0", ":", "1", ":", "0", ",", "1", ".", "2", ".", "3", ".", "4", ":", "5", "3">>, <<"1", "9", "-", "1", ",", "0", "1", ".", "2", ".", "3", ".", "4", ":", "5", "3">>, <<"1", "9", "-", "1", ",", "1", ".", "2", ".", "3", ".", "4", ":">> }

ScionInputs ==
    { i \o <<"-">> \o a \o <<",">> \o h \o p :
        i \in IsdTexts, a \in AsTexts, h \in ScionHosts, p \in ScionPorts }
    \cup ScionSamples

InitScion == InitOn(ScionInputs)

\* the first place of c in t from place i on, 0 when there is none
FirstAt(t, c, i) ==
    IF \E k \in i..Len(t) : t[k] = c
    THEN CHOOSE k \in i..Len(t) : t[k] = c /\ \A j \in i..(k - 1) : t[j] # c
    ELSE 0

\* t has an AS component: a '-' and a ',' behind it
HasAsText(t) ==
    /\ FirstAt(t, "-", 1) > 0
    /\ FirstAt(t, ",", FirstAt(t, "-", 1)) > 0

\* the text between the first '-' and the first ',' behind it
AsTextOf(t) ==
    SubSeq(t, FirstAt(t, "-", 1) + 1, FirstAt(t, ",", FirstAt(t, "-", 1)) - 1)

\* as_from_dotted_hex called on the text between '-' and ',' of the input;
\* the call aborts where its unwrap fails
AsFromDottedHex ==
    /\ last.op = "new"
    /\ HasAsText(input)
    /\ last' = With(as_from_dotted_hex(AsTextOf(input)), LAMBDA r :
                   [op |-> "as_from_dotted_hex", ok |-> r.ok, val |-> r.val,
                    err |-> IF r.ok THEN "none" ELSE "panic", before |-> 1,
                    panic |-> ~r.ok])
    /\ UNCHANGED <<input, cursor, stdout, value>>

NextScion ==
    \/ ParseScionAddr
    \/ ParseSocketAddrScion
    \/ ParseSocketAddr
    \/ AsFromDottedHex
    \/ CallToString
    \/ FromStrAgain

SpecScion == InitScion /\ [][NextScion]_vars

-----------------------------------------------------------------------------
(* Properties of the SCION grammar *)

ScionOps == {"ScionAddr", "SocketAddrScion", "SocketAddr"}

\* one or more hex digits
IsHexText(f) == Len(f) >= 1 /\ \A i \in 1..Len(f) : f[i] \in HexDigits

\* C9: a text whose AS component is exactly two hex groups with a ':'
\* between them is rejected by ScionAddr::from_str,
\* SocketAddrScion::from_str and SocketAddr::from_str.
C9_TwoGroupAsRejected ==
    /\ last.op \in ScionOps
    /\ HasAsText(input)
    /\ Len(Split(AsTextOf(input), ":", <<>>)) = 2
    /\ \A i \in 1..2 : IsHexText(Split(AsTextOf(input), ":", <<>>)[i])
    => ~last.ok

\* C9 witness: SocketAddr::from_str rejected a text with a two-group AS,
\* and the reader reported the two groups
C9_Witness ==
    /\ last.op = "SocketAddr"
    /\ input = <<"1", "-", "1", ":", "2", ",", "1", "2", "7", ".", "0", ".", "0", ".", "1", ":", "5", "3">>
    /\ ~last.ok
    /\ stdout = << <<"IS_SHORT_AS">> >>

\* C10: the AS component of an accepted SCION text is a single hex group
\* of 1 to 4 digits or exactly three such groups with ':' between them;
\* an empty AS component and one that starts with ':' are rejected.
C10_AsGrammar ==
    last.op \in ScionOps /\ last.ok /\ HasAsText(input) =>
        LET fields == Split(AsTextOf(input), ":", <<>>)
        IN  /\ Len(fields) \in {1, 3}
            /\ \A i \in 1..Len(fields) :
                   IsHexText(fields[i]) /\ Len(fields[i]) <= 4

\* the ScionAddr of an accepted SCION text
ScionOf(l) ==
    IF l.op = "ScionAddr" THEN l.val
    ELSE IF l.op = "SocketAddrScion" THEN l.val.addr
    ELSE l.val.sock.addr

\* the fields are hex groups of 1 to 4 digits
AreAsGroups(fields) ==
    \A i \in 1..Len(fields) : IsHexText(fields[i]) /\ Len(fields[i]) <= 4

\* C11: for an AS text of three groups g0:g1:g2 of 1 to 4 hex digits,
\* as_from_dotted_hex and the SCION reader both yield
\* g0 * 2^32 + g1 * 2^16 + g2, and for an AS text of one group g the
\* reader yields g.
C11_AsValue ==
    last.op \in ScionOps \cup {"as_from_dotted_hex"} /\ HasAsText(input) =>
        LET g == Split(AsTextOf(input), ":", <<>>)
            full == <<0, HexValueOf(g[1], 0), HexValueOf(g[2], 0),
                      HexValueOf(g[3], 0)>>
        IN  /\ last.op = "as_from_dotted_hex" /\ Len(g) = 3 /\ AreAsGroups(g)
                   => last.ok /\ last.val = full
            /\ last.op \in ScionOps /\ last.ok /\ Len(g) = 3 /\ AreAsGroups(g)
                   => get_as(ScionOf(last)) = full
            /\ last.op \in ScionOps /\ last.ok /\ Len(g) = 1 /\ AreAsGroups(g)
                   => get_as(ScionOf(last)) = <<0, 0, 0, HexValueOf(g[1], 0)>>

\* C11 witness: as_from_dotted_hex("ffaa:1:1067") returned 281105609592935
C11_Witness ==
    /\ last.op = "as_from_dotted_hex"
    /\ AsTextOf(input) = <<"f", "f", "a", "a", ":", "1", ":", "1", "0", "6", "7">>
    /\ last.ok
    /\ last.val = U64Of(<<"2", "8", "1", "1", "0", "5", "6", "0", "9", "5", "9", "2", "9", "3", "5">>)

-----------------------------------------------------------------------------
(* Display of SCION values: the specification *)

\* the values the Display specification starts from
FmtIsds == {19, 65535}

FmtAsHigh == {0, 1, 16, 256, 65450}

FmtAsMid == {0, 1, 16, 65535}

FmtAsLow == {0, 15, 4199, 65535}

FmtAsNumbers ==
    {<<0, a, b, c>> : a \in FmtAsHigh, b \in FmtAsMid, c \in FmtAsLow}

FmtHosts ==
    {IpAddrV4(<<127, 0, 0, 1>>),
     IpAddrV6(<<0, 0, 0, 0, 0, 0, 0, 0, 0, 0, 0, 0, 0, 0, 0, 1>>)}

FmtPorts == {0, 53}

FmtValues ==
    {SocketAddrScion_new1(ScionAddr_new1(i, a, h), p) :
        i \in FmtIsds, a \in FmtAsNumbers, h \in FmtHosts, p \in FmtPorts}

InitFmt ==
    /\ input = <<>>
    /\ cursor = 1
    /\ stdout = <<>>
    /\ value \in FmtValues
    /\ last = [op |-> "new", ok |-> TRUE, val |-> <<>>, err |-> "none",
               before |-> 1, panic |-> FALSE]

\* a call that returned the text v
Formatted(op, v) ==
    /\ last.op = "new"
    /\ last' = [op |-> op, ok |-> TRUE, val |-> v, err |-> "none",
                before |-> 1, panic |-> FALSE]
    /\ UNCHANGED <<input, cursor, stdout, value>>

FormatAS == Formatted("format_AS", format_AS(get_as(value.addr)))

AsToDottedHex ==
    Formatted("as_to_dotted_hex", as_to_dotted_hex(get_as(value.addr)))

FmtScionAddr == Formatted("ScionAddr_fmt", ScionAddr_fmt(value.addr))

FmtSocketAddrScion ==
    Formatted("SocketAddrScion_fmt", SocketAddrScion_fmt(value))

\* as_from_dotted_hex called on the text as_to_dotted_hex returned
FromDottedHexBack ==
    /\ last.op = "as_to_dotted_hex"
    /\ input' = last.val
    /\ last' = With(as_from_dotted_hex(last.val), LAMBDA r :
                   [op |-> "as_from_dotted_hex", ok |-> r.ok, val |-> r.val,
                    err |-> IF r.ok THEN "none" ELSE "panic", before |-> 1,
                    panic |-> ~r.ok])
    /\ UNCHANGED <<cursor, stdout, value>>

NextFmt ==
    \/ FormatAS
    \/ AsToDottedHex
    \/ FmtScionAddr
    \/ FmtSocketAddrScion
    \/ FromDottedHexBack

SpecFmt == InitFmt /\ [][NextFmt]_vars

\* t is the decimal text of x: digits only, no leading zero, value x
IsDecimalOf(t, x) ==
    /\ t # <<>>
    /\ \A i \in 1..Len(t) : t[i] \in DecDigits
    /\ Len(t) > 1 => t[1] # "0"
    /\ read_number(t, 1, 10, {}, TRUE, 8 * 2 * Len(x)).val = x

\* the AS number is at most 2^32 - 1
IsLegacyAs(x) == x[1] = 0 /\ x[2] = 0

FmtOps == {"ScionAddr_fmt", "SocketAddrScion_fmt"}

\* C12: format_AS writes an AS number up to 2^32 - 1 as plain decimal and a
\* larger one as as_to_dotted_hex writes it; the Display of a SCION address
\* and of a SCION socket address show the AS the same way, so never a
\* legacy-range AS in colon-hex.
C12_FormatAs ==
    LET asn == get_as(value.addr)
    IN  /\ last.op = "format_AS" =>
              IF IsLegacyAs(asn) THEN IsDecimalOf(last.val, asn)
              ELSE last.val = as_to_dotted_hex(asn)
        /\ last.op \in FmtOps =>
              /\ HasAsText(last.val)
              /\ IF IsLegacyAs(asn) THEN IsDecimalOf(AsTextOf(last.val), asn)
                 ELSE AsTextOf(last.val) = as_to_dotted_hex(asn)

\* C12 witness: the address with AS 0:1:f was displayed with AS 65551
C12_Witness ==
    /\ last.op = "SocketAddrScion_fmt"
    /\ get_as(value.addr) = <<0, 0, 1, 15>>
    /\ AsTextOf(last.val) = <<"6", "5", "5", "5", "1">>

\* C13: for every AS number x with 2^32 <= x < 2^48,
\* as_from_dotted_hex(as_to_dotted_hex(x)) returns x.
C13_AsRoundTrip ==
    last.op = "as_from_dotted_hex" /\ ~IsLegacyAs(get_as(value.addr)) =>
        last.ok /\ last.val = get_as(value.addr)

\* C14: for an AS number of 12 hex digits, as_to_dotted_hex returns the three
\* 16-bit groups in lowercase hex without leading zeros (a zero group as
\* "0"), joined by exactly two colons, with no trailing colon.
C14_TwelveDigitGroups ==
    last.op = "as_to_dotted_hex" /\ get_as(value.addr)[2] >= 4096 =>
        LET asn == get_as(value.addr)
            f == Split(last.val, ":", <<>>)
        IN  /\ Len(f) = 3
            /\ \A i \in 1..3 : IsShortHexOf(f[i], asn[i + 1])

RECURSIVE DecValueOf(_, _)
\* the value of a text of decimal digits
DecValueOf(t, acc) ==
    IF t = <<>> THEN acc ELSE DecValueOf(Tail(t), acc * 10 + DecVal(Head(t)))

\* one or more decimal digits
IsDecText(t) == Len(t) >= 1 /\ \A i \in 1..Len(t) : t[i] \in DecDigits

\* the text before the first '-'
IsdTextOf(t) == SubSeq(t, 1, FirstAt(t, "-", 1) - 1)

\* the text behind the first ',' that follows the first '-'
HostPortOf(t) == SubSeq(t, FirstAt(t, ",", FirstAt(t, "-", 1)) + 1, Len(t))

\* a is an AS text of one group or of three groups of 1 to 4 hex digits
IsAsText(a) ==
    LET g == Split(a, ":", <<>>) IN Len(g) \in {1, 3} /\ AreAsGroups(g)

\* the value of a well-formed AS text
AsTextValue(a) ==
    LET g == Split(a, ":", <<>>)
    IN  IF Len(g) = 1 THEN <<0, 0, 0, HexValueOf(g[1], 0)>>
        ELSE <<0, HexValueOf(g[1], 0), HexValueOf(g[2], 0), HexValueOf(g[3], 0)>>

\* t is "I-A,H:P": ISD of 1 to 6 digits up to 65535, well-formed AS, IPv4
\* host, port up to 65535
IsScionV4SocketText(t) ==
    /\ HasAsText(t)
    /\ IsDecText(IsdTextOf(t)) /\ Len(IsdTextOf(t)) <= 6
    /\ DecValueOf(IsdTextOf(t), 0) <= 65535
    /\ IsAsText(AsTextOf(t))
    /\ LET hp == Split(HostPortOf(t), ":", <<>>)
       IN  /\ Len(hp) = 2
           /\ IsDottedQuad(hp[1])
           /\ IsDecText(hp[2]) /\ Len(hp[2]) <= 6
           /\ DecValueOf(hp[2], 0) <= 65535

\* C15: SocketAddr::from_str("I-A,H:P") with an ISD text of 1 to 6 digits
\* and value I <= 65535, a well-formed AS text of value A, an IPv4 host H
\* and a port P yields SCION(SocketAddrScion::new1(ScionAddr::new1(I, A, H),
\* P)) with get_isd() = I, get_as() = A, get_ia() = I * 2^48 + A; an ISD of
\* more than 6 digits or above 65535 is rejected.
C15_ScionSocketValue ==
    /\ last.op = "SocketAddr" /\ IsScionV4SocketText(input) =>
          LET I == DecValueOf(IsdTextOf(input), 0)
              A == AsTextValue(AsTextOf(input))
              hp == Split(HostPortOf(input), ":", <<>>)
              H == IpAddrV4(DottedQuadValue(hp[1]))
              P == DecValueOf(hp[2], 0)
          IN  /\ last.ok
              /\ last.val = [tag |-> "SCION",
                             sock |-> SocketAddrScion_new1(
                                          ScionAddr_new1(I, A, H), P)]
              /\ get_isd(last.val.sock.addr) = I
              /\ get_as(last.val.sock.addr) = A
              /\ get_ia(last.val.sock.addr) = <<I, A[2], A[3], A[4]>>
              /\ last.val.sock.addr.host = H
              /\ last.val.sock.port = P
    /\ /\ last.op \in ScionOps
       /\ FirstAt(input, "-", 1) > 0
       /\ IsDecText(IsdTextOf(input))
       /\ IF Len(IsdTextOf(input)) > 6 THEN TRUE
          ELSE DecValueOf(IsdTextOf(input), 0) > 65535
       => ~last.ok

\* C15 witness: SocketAddr::from_str("000019-ffaa:1:1067,1.2.3.4:53")
\* returned the SCION socket address of ISD 19, AS ffaa:1:1067
C15_Witness ==
    /\ last.op = "SocketAddr"
    /\ input = <<"0", "0", "0", "0", "1", "9", "-", "f", "f", "a", "a", ":", "1", ":", "1", "0", "6", "7", ",", "1", ".", "2", ".", "3", ".", "4", ":", "5", "3">>
    /\ last.ok
    /\ get_ia(last.val.sock.addr) = <<19, 65450, 1, 4199>>
    /\ last.val.sock.port = 53

\* C16: the Display text of a SCION socket address is
\* "{isd}-{as},{host}:{port}": the ISD in decimal, the AS as format_AS
\* writes it, the host bare when it is IPv4 and between '[' and ']' when it
\* is IPv6, the port in decimal.
C16_CanonicalOutput ==
    last.op = "SocketAddrScion_fmt" =>
        last.val = DigitsOf(get_isd(value.addr), 10) \o <<"-">>
                       \o format_AS(get_as(value.addr)) \o <<",">>
                       \o (IF value.addr.host.tag = "V4"
                           THEN Ipv4Addr_fmt(value.addr.host.addr)
                           ELSE <<"[">> \o Ipv6Addr_fmt(value.addr.host.addr)
                                    \o <<"]">>)
                       \o <<":">> \o DigitsOf(value.port, 10)

\* t is decimal without leading zeros and at most 65535
IsCanonicalU16(t) ==
    /\ IsDecText(t) /\ Len(t) <= 5
    /\ Len(t) > 1 => t[1] # "0"
    /\ DecValueOf(t, 0) <= 65535

\* t is "I-g0:g1:g2,H:P" in canonical form: I and P decimal without leading
\* zeros, the groups lowercase hex without leading zeros, g0 not zero, H a
\* canonical IPv4 literal
IsCanonicalScionSocket(t) ==
    /\ HasAsText(t)
    /\ IsCanonicalU16(IsdTextOf(t))
    /\ LET g == Split(AsTextOf(t), ":", <<>>)
       IN  /\ Len(g) = 3
           /\ \A i \in 1..3 : IsShortHexOf(g[i], HexValueOf(g[i], 0))
           /\ HexValueOf(g[1], 0) # 0
    /\ LET hp == Split(HostPortOf(t), ":", <<>>)
       IN  Len(hp) = 2 /\ IsDottedQuad(hp[1]) /\ IsCanonicalU16(hp[2])

\* C17: for a canonical text s = "I-g0:g1:g2,H:P" with g0 # 0,
\* SocketAddr::from_str(s) succeeds and to_string() of the result is s.
C17_CanonicalTextReproduced ==
    /\ last.op = "SocketAddr" /\ IsCanonicalScionSocket(input) => last.ok
    /\ last.op = "to_string" /\ value.type = "SocketAddr"
            /\ IsCanonicalScionSocket(input)
           => last.val = input

\* C18: re-parsing the to_string() of a ScionAddr or SocketAddrScion value
\* that a from_str call returned succeeds and yields an equal value.
C18_ScionIdempotence ==
    last.op = "from_str" /\ value.type \in {"ScionAddr", "SocketAddrScion"}
        => last.ok /\ last.val = value.val

-----------------------------------------------------------------------------
(* Display and from_str of IP values: the specification *)

OctetValues == {0, 1, 10, 255}

Ip4Values == {<<a, b, c, d>> : a, b, c, d \in OctetValues}

Ip4SocketHosts == {<<127, 0, 0, 1>>, <<0, 0, 0, 0>>, <<255, 255, 255, 255>>}

Ip6SocketHosts ==
    { Ipv6FromSegments(<<0, 0, 0, 0, 0, f, x, y>>) :
          f \in {0, 65535}, x \in TailValues, y \in TailValues }

IpPorts == {0, 80, 65535}

\* scope ids 0, 1, 65536 and 4294967295
ScopeIds == {<<0, 0>>, <<0, 1>>, <<1, 0>>, <<65535, 65535>>}

\* v is one of the typed values the specification starts from
IsIpTypedValue(v) ==
    \/ \E a \in Ip4Values : v = [type |-> "Ipv4Addr", val |-> a]
    \/ \E a \in Display6Values : v = [type |-> "Ipv6Addr", val |-> a]
    \/ \E a \in Ip4SocketHosts, p \in IpPorts :
           v = [type |-> "SocketAddrV4", val |-> SocketAddrV4_new(a, p)]
    \/ \E a \in Ip6SocketHosts, p \in IpPorts, s \in ScopeIds :
           v = [type |-> "SocketAddrV6",
                val |-> SocketAddrV6_new(a, p, ZERO(32), s)]

InitIp ==
    /\ input = <<>>
    /\ cursor = 1
    /\ stdout = <<>>
    /\ IsIpTypedValue(value)
    /\ last = [op |-> "new", ok |-> TRUE, val |-> <<>>, err |-> "none",
               before |-> 1, panic |-> FALSE]

\* to_string() of the value
ValueToString ==
    /\ last.op = "new"
    /\ last' = [op |-> "to_string", ok |-> TRUE,
                val |-> to_string(value.type, value.val), err |-> "none",
                before |-> 1, panic |-> FALSE]
    /\ UNCHANGED <<input, cursor, stdout, value>>

NextIp == ValueToString \/ FromStrAgain

SpecIp == InitIp /\ [][NextIp]_vars

IpTypes == {"Ipv4Addr", "Ipv6Addr", "SocketAddrV4", "SocketAddrV6"}

\* C19: for an Ipv4Addr, an Ipv6Addr, a SocketAddrV4 and a SocketAddrV6 with
\* flowinfo 0, from_str of the type on the Display text of the value
\* succeeds and returns a value equal to it.
C19_IpIdempotence ==
    last.op = "from_str" /\ value.type \in IpTypes =>
        /\ last.ok
        /\ last.val = value.val
        /\ cursor = Len(input) + 1

\* C19 witness: a SocketAddrV6 of an IPv4-mapped address with scope id
\* 65536 was printed with its scope id and read back
C19_Witness ==
    /\ last.op = "from_str"
    /\ value.type = "SocketAddrV6"
    /\ value.val.scope_id = <<1, 0>>
    /\ IsMapped(segments(value.val.ip))
    /\ \E i \in 1..Len(input) : input[i] = "%"
    /\ last.ok
    /\ last.val.scope_id = <<1, 0>>

-----------------------------------------------------------------------------
(* Properties of the socket address dispatch *)

\* C20: SocketAddr::from_str(s) returns V4(x) where SocketAddrV4::from_str(s)
\* is Ok(x), else V6(y) where SocketAddrV6::from_str(s) is Ok(y), else
\* SCION(z) where SocketAddrScion::from_str(s) is Ok(z), else Err(Socket);
\* no text is accepted by more than one of the three.
C20_SocketDispatch ==
    last.op = "SocketAddr" =>
        LET v4 == SocketAddrV4_parse_ascii(input)
            v6 == SocketAddrV6_parse_ascii(input)
            sc == SocketAddrScion_parse_ascii(input)
        IN  /\ IF v4.ok
               THEN last.ok /\ last.val = [tag |-> "V4", sock |-> v4.val]
               ELSE IF v6.ok
               THEN last.ok /\ last.val = [tag |-> "V6", sock |-> v6.val]
               ELSE IF sc.ok
               THEN last.ok /\ last.val = [tag |-> "SCION", sock |-> sc.val]
               ELSE ~last.ok /\ last.err = "Socket"
            /\ ~(v4.ok /\ v6.ok)
            /\ ~(v4.ok /\ sc.ok)
            /\ ~(v6.ok /\ sc.ok)

\* C20 witness: SocketAddr::from_str returned the SCION variant for a text
\* that the two IP socket grammars reject
C20_Witness ==
    /\ last.op = "SocketAddr"
    /\ input = <<"1", "9", "-", "f", "f", "a", "a", ":", "1", ":", "1", "0", "6", "7", ",", "1", ".", "2", ".", "3", ".", "4", ":", "8", "0">>
    /\ last.ok
    /\ last.val.tag = "SCION"
    /\ last.val.sock = SocketAddrScion_parse_ascii(input).val
    /\ ~SocketAddrV4_parse_ascii(input).ok
    /\ ~SocketAddrV6_parse_ascii(input).ok

-----------------------------------------------------------------------------
(* Socket texts with ports *)

PortHosts ==
    { <<"1", ".", "2", ".", "3", ".", "4">>, <<"[", ":", ":", "1", "]">>, <<"[", ":", ":", "1", "%", "3", "]">>, <<"1", "9", "-", "f", "f", "a", "a", ":", "1", ":", "1", "0", "6", "7", ",", "1", ".", "2", ".", "3", ".", "4">>,
      <<"1", "9", "-", "1", ",", "[", ":", ":", "1", "]">> }

PortTexts ==
    { <<>>, <<":">>, <<":", "0">>, <<":", "8", "0">>, <<":", "0", "0", "0", "0", "0", "8", "0">>, <<":", "6", "5", "5", "3", "5">>, <<":", "6", "5", "5", "3", "6">>,
      <<":", "0", "6", "5", "5", "3", "5">>, <<":", "9", "9", "9", "9", "9">>, <<":", "0", "0", "0", "0", "0", "0", "0", "0", "0", "0", "8", "0">>, <<":", "8", "x">>, <<":", "-", "1">>,
      <<"8", "0">>, <<":", " ", "8", "0">>, <<":", "+", "8", "0">>, <<":", ":", "8", "0">>, <<":", "8", "0", ":">>, <<":", "1", "0", "0", "0", "0", "0">>, <<":", "0", "0", "6", "5", "5", "3", "6">>,
      <<":", "0", "0", "0", "0", "0">>, <<":", "4", "2", "9", "4", "9", "6", "7", "3", "7", "6">> }

PortInputs == {h \o p : h \in PortHosts, p \in PortTexts}

InitPort == InitOn(PortInputs)

NextPort ==
    \/ ParseSocketAddrV4
    \/ ParseSocketAddrV6
    \/ ParseSocketAddrScion
    \/ ParseSocketAddr

SpecPort == InitPort /\ [][NextPort]_vars

\* the socket grammar a host text belongs to
FamilyOf(h) ==
    IF h[1] = "[" THEN "SocketAddrV6"
    ELSE IF \E i \in 1..Len(h) : h[i] = "-" THEN "SocketAddrScion"
    ELSE "SocketAddrV4"

\* h is the beginning of t
IsPrefixOf(h, t) == Len(h) <= Len(t) /\ SubSeq(t, 1, Len(h)) = h

RECURSIVE StripZeros(_)
\* t without its leading zeros
StripZeros(t) ==
    IF t # <<>> /\ Head(t) = "0" THEN StripZeros(Tail(t)) ELSE t

\* p is ':' and one or more decimal digits of value at most 65535
IsPortText(p) ==
    /\ Len(p) >= 2
    /\ p[1] = ":"
    /\ IsDecText(Tail(p))
    /\ Len(StripZeros(Tail(p))) <= 5
    /\ DecValueOf(StripZeros(Tail(p)), 0) <= 65535

\* the port of the value a socket entry point returned
PortOf(l) == IF l.op = "SocketAddr" THEN l.val.sock.port ELSE l.val.port

\* C21: a socket text host \o p is accepted by the grammar of its family
\* and by SocketAddr::from_str exactly when p is ':' followed by one or
\* more decimal digits, of any count and with leading zeros, whose value is
\* at most 65535; the port of the result is that value.
C21_PortGrammar ==
    \A h \in PortHosts :
        IsPrefixOf(h, input) /\ last.op \in {FamilyOf(h), "SocketAddr"} =>
            LET p == SubSeq(input, Len(h) + 1, Len(input))
            IN  /\ last.ok <=> IsPortText(p)
                /\ last.ok => PortOf(last) = DecValueOf(StripZeros(Tail(p)), 0)

\* C21 witness: SocketAddrV4::from_str("1.2.3.4:0000080") returned port 80
C21_Witness ==
    /\ last.op = "SocketAddrV4"
    /\ input = <<"1", ".", "2", ".", "3", ".", "4", ":", "0", "0", "0", "0", "0", "8", "0">>
    /\ last.ok
    /\ last.val.port = 80

-----------------------------------------------------------------------------
(* SCION texts with and without brackets around the host *)

BracketPrefixes == { <<"1", "9", "-", "f", "f", "a", "a", ":", "1", ":", "1", "0", "6", "7", ",">>, <<"1", "-", "1", ",">>, <<"0", "6", "5", "5", "3", "5", "-", "0", ":", "1", ":", "f", ",">> }

BracketHosts ==
    { <<"1", ".", "2", ".", "3", ".", "4">>, <<"2", "5", "5", ".", "2", "5", "5", ".", "2", "5", "5", ".", "2", "5", "5">>, <<":", ":">>, <<":", ":", "1">>, <<"1", ":", "2", ":", "3", ":", "4", ":", "5", ":", "6", ":", "7", ":", "8">>,
      <<":", ":", "f", "f", "f", "f", ":", "1", ".", "2", ".", "3", ".", "4">>, <<"f", "e", "8", "0", ":", ":", "1">>, <<"1", ":", ":", "2", ":", "3">> }

BracketInputs ==
    {pre \o open \o h \o close :
        pre \in BracketPrefixes, open \in {<<>>, <<"[">>},
        h \in BracketHosts, close \in {<<>>, <<"]">>}}

InitBracket == InitOn(BracketInputs)

NextBracket == ParseScionAddr

SpecBracket == InitBracket /\ [][NextBracket]_vars

\* pre is "I-A," with an ISD of 1 to 6 digits up to 65535 and a well-formed
\* AS text
IsScionPrefix(t) ==
    /\ HasAsText(t)
    /\ IsDecText(IsdTextOf(t)) /\ Len(IsdTextOf(t)) <= 6
    /\ DecValueOf(IsdTextOf(t), 0) <= 65535
    /\ IsAsText(AsTextOf(t))

\* C22: for an ISD-AS prefix and a host literal H, ScionAddr::from_str
\* accepts "I-A,H" and "I-A,[H]", and both yield the same value, whose host
\* is H.
C22_BracketsDiscarded ==
    last.op = "ScionAddr" /\ IsScionPrefix(input) =>
        LET hp == HostPortOf(input)
            pre == SubSeq(input, 1, Len(input) - Len(hp))
            inner == SubSeq(hp, 2, Len(hp) - 1)
        IN  /\ IpAddr_parse_ascii(hp).ok =>
                  last.ok /\ last.val.host = IpAddr_parse_ascii(hp).val
            /\ /\ Len(hp) >= 2 /\ hp[1] = "[" /\ hp[Len(hp)] = "]"
               /\ IpAddr_parse_ascii(inner).ok
               => /\ last.ok
                  /\ last.val.host = IpAddr_parse_ascii(inner).val
                  /\ ScionAddr_parse_ascii(pre \o inner).ok
                  /\ last.val = ScionAddr_parse_ascii(pre \o inner).val

\* C22 witness: ScionAddr::from_str("19-ffaa:1:1067,[::ffff:1.2.3.4]")
\* returned the value of "19-ffaa:1:1067,::ffff:1.2.3.4"
C22_Witness ==
    /\ last.op = "ScionAddr"
    /\ input = <<"1", "9", "-", "f", "f", "a", "a", ":", "1", ":", "1", "0", "6", "7", ",", "[", ":", ":", "f", "f", "f", "f", ":", "1", ".", "2", ".", "3", ".", "4", "]">>
    /\ last.ok
    /\ last.val = ScionAddr_parse_ascii(<<"1", "9", "-", "f", "f", "a", "a", ":", "1", ":", "1", "0", "6", "7", ",", ":", ":", "f", "f", "f", "f", ":", "1", ".", "2", ".", "3", ".", "4">>).val
    /\ last.val.host.tag = "V6"

-----------------------------------------------------------------------------
(* Properties of the way calls end *)

ErrKinds == {"Ip", "Ipv4", "Ipv6", "Scion", "Socket", "SocketV4", "SocketV6",
             "SocketScion"}

\* C23: every parse_ascii / from_str call ends with Ok or Err and never
\* aborts: no index of read_groups or of the head/tail splice is out of
\* bounds, no subtraction underflows, the unwrap behind read_AS does not
\* fail, and isd_from_ia of a parsed IA fits 16 bits.
C23_NeverAborts ==
    last.op \in EntryOps =>
        /\ ~last.panic
        /\ IF last.ok THEN last.err = "none" ELSE last.err \in ErrKinds
        /\ /\ last.ok /\ last.op \in ScionOps
           /\ last.op = "SocketAddr" => last.val.tag = "SCION"
           => SubSeq(Shr16(Shr16(Shr16(get_ia(ScionOf(last))))), 1, 3)
                  = <<0, 0, 0>>

\* C23 witness: Ipv6Addr::from_str("1:2:3:4:5:6:7::") returned Ok; the tail
\* slice handed to read_groups was empty
C23_Witness ==
    /\ last.op = "Ipv6Addr"
    /\ input = <<"1", ":", "2", ":", "3", ":", "4", ":", "5", ":", "6", ":", "7", ":", ":">>
    /\ read_groups(input, 1, [i \in 1..8 |-> 0]).n = 7
    /\ last.ok
    /\ ~last.panic
    /\ segments(last.val) = <<1, 2, 3, 4, 5, 6, 7, 0>>

\* C24: as_from_dotted_hex never aborts: not on a text without a hex group,
\* not on a text with a character that is no hex digit, not on a text of
\* more than 16 hex digits after padding.
C24_DottedHexNeverAborts ==
    last.op = "as_from_dotted_hex" => ~last.panic

-----------------------------------------------------------------------------
(* The setters of ScionAddr *)

\* ScionAddr::set_ia
set_ia(a, ia_) == [a EXCEPT !.ia = ia_]

\* ScionAddr::set_isd
set_isd(a, isd_) == set_ia(a, make_ia(isd_, get_as(a)))

\* set_as that stores the AS as the whole IA
set_as_whole(a, as_) == set_ia(a, as_)

\* ScionAddr::set_as
set_as(a, as_) == set_ia(a, make_ia(get_isd(a), as_))

\* ScionAddr::set_host
set_host(a, h) == [a EXCEPT !.host = h]

\* number of setter calls made on one address
MaxCalls == 2

SetIsds == {0, 19, 65535}

\* AS arguments: 0, 1, 2^48 - 1, 2^48, 2^48 + 1 and 2^64 - 1
SetAses ==
    { <<0, 0, 0, 0>>, <<0, 0, 0, 1>>, <<0, 65535, 65535, 65535>>,
      <<1, 0, 0, 0>>, <<1, 0, 0, 1>>, <<65535, 65535, 65535, 65535>> }

SetHosts == FmtHosts

\* IA arguments: 0, 1, 19-1 and 2^64 - 1
SetIas ==
    { <<0, 0, 0, 0>>, <<0, 0, 0, 1>>, <<19, 0, 0, 1>>,
      <<65535, 65535, 65535, 65535>> }

\* input is the list of the arguments supplied so far, the three of new1
\* first; last.val is the address before the last call
InitSet ==
    /\ cursor = 1
    /\ stdout = <<>>
    /\ \E i \in SetIsds, a \in SetAses, h \in SetHosts :
          /\ value = ScionAddr_new1(i, a, h)
          /\ input = <<[field |-> "isd", arg |-> i],
                       [field |-> "as", arg |-> a],
                       [field |-> "host", arg |-> h]>>
    /\ last = NoCall

Setter(op, field, arg, after) ==
    /\ Len(input) < 3 + MaxCalls
    /\ value' = after
    /\ input' = Append(input, [field |-> field, arg |-> arg])
    /\ last' = [op |-> op, ok |-> TRUE, val |-> value, before |-> 1,
                panic |-> FALSE]
    /\ UNCHANGED <<cursor, stdout>>

SetIsd == \E i \in SetIsds : Setter("set_isd", "isd", i, set_isd(value, i))

SetAs == \E a \in SetAses : Setter("set_as", "as", a, set_as(value, a))

SetHost == \E h \in SetHosts : Setter("set_host", "host", h, set_host(value, h))

SetIa == \E ia_ \in SetIas : Setter("set_ia", "ia", ia_, set_ia(value, ia_))

NextSet == SetIsd \/ SetAs \/ SetHost \/ SetIa

SpecSet == InitSet /\ [][NextSet]_vars

\* the argument supplied last for the field
Latest(field) ==
    LET k == CHOOSE k \in 1..Len(input) :
                 /\ input[k].field = field
                 /\ \A j \in (k + 1)..Len(input) : input[j].field # field
    IN  input[k].arg

\* the calls made so far are set_isd, set_as and set_host calls
NoIaSet == \A k \in 1..Len(input) : input[k].field # "ia"

\* what the claim says of the address after the calls made so far
PackingKept ==
    NoIaSet =>
    /\ get_isd(value) = Latest("isd")
    /\ get_as(value) = Latest("as")
    /\ last.op = "set_as" => get_isd(value) = get_isd(last.val)
    /\ last.op = "set_isd" => get_as(value) = get_as(last.val)
    /\ last.op = "set_host" =>
          get_isd(value) = get_isd(last.val) /\ get_as(value) = get_as(last.val)

\* C25 as stated: after ScionAddr::new1(i, a, h) and any sequence of
\* set_isd, set_as and set_host calls with arbitrary u16 / u64 arguments,
\* get_isd() is the ISD supplied last and get_as() the AS supplied last;
\* set_as leaves get_isd() alone, set_isd leaves get_as() alone, set_host
\* leaves both alone.
C25_SettersKeepPacking == PackingKept

\* C25 amended: the same where every AS supplied so far is below 2^48.
C25_SettersKeepPackingBelow48 ==
    (\A k \in 1..Len(input) : input[k].field = "as" => input[k].arg[1] = 0)
        => PackingKept

\* C25 witness: set_as and then set_isd changed both fields of an address
\* and each getter returns the argument supplied last
C25_Witness ==
    /\ Len(input) = 5
    /\ input[4] = [field |-> "as", arg |-> <<0, 65535, 65535, 65535>>]
    /\ input[5] = [field |-> "isd", arg |-> 65535]
    /\ input[1].arg = 19
    /\ input[2].arg = <<0, 0, 0, 1>>
    /\ last.op = "set_isd"
    /\ get_isd(value) = 65535
    /\ get_as(value) = <<0, 65535, 65535, 65535>>

\* C26: no parse_ascii / from_str call, on any input and whether it succeeds
\* or fails, writes anything to standard output; its only observable effect
\* is its return value.
C26_ParsingPrintsNothing ==
    last.op \in EntryOps \cup {"from_str"} => stdout = <<>>

-----------------------------------------------------------------------------
(* Display with a width or a precision: the staging buffer *)

\* a byte of the buffer that was never written (MaybeUninit::uninit())
Uninit == "uninit"

\* DisplayBuffer::<SIZE>::new()
DisplayBuffer_new(SIZE) == [buf |-> [i \in 1..SIZE |-> Uninit], len |-> 0]

\* DisplayBuffer::write_str: the bytes of s behind the len bytes written
\* before, Err when they do not fit
write_str(b, s) ==
    IF b.len + Len(s) <= Len(b.buf)
    THEN [ok |-> TRUE,
          b |-> [buf |-> [i \in 1..Len(b.buf) |->
                            IF i > b.len /\ i <= b.len + Len(s)
                            THEN s[i - b.len] ELSE b.buf[i]],
                 len |-> b.len + Len(s)]]
    ELSE [ok |-> FALSE, b |-> b]

\* the 8-byte word of the local array that holds byte i; the words are
\* counted from 0
WordOf(i) == (i - 1) \div 8

\* the words of an array of n bytes
WordsOf(n) == {WordOf(i) : i \in 1..n}

\* DisplayBuffer::as_str: all SIZE bytes of the buffer copied into a local
\* array and a slice of that array returned.  Reading a byte that was never
\* written yields whatever the memory holds (mem[i]).  The array is gone
\* when the caller reads the slice and any of its bytes may have been
\* overwritten: the caller sees a copied byte only at the places that were
\* left alone (alive is the set of those places), and mem[i] elsewhere.
as_str(b, mem, alive) ==
    [i \in 1..Len(b.buf) |->
        IF i \in alive /\ b.buf[i] # Uninit THEN b.buf[i] ELSE mem[i]]

\* the length of LONGEST_IPV4_ADDR, LONGEST_IPV6_ADDR,
\* LONGEST_IPV4_SOCKET_ADDR and LONGEST_IPV6_SOCKET_ADDR
LongestLen(ty) ==
    CASE ty = "Ipv4Addr" -> Len(<<"2", "5", "5", ".", "2", "5", "5", ".", "2", "5", "5", ".", "2", "5", "5">>)
      [] ty = "Ipv6Addr" -> Len(<<"f", "f", "f", "f", ":", "f", "f", "f", "f", ":", "f", "f", "f", "f", ":", "f", "f", "f", "f", ":", "f", "f", "f", "f", ":", "f", "f", "f", "f", ":", "f", "f", "f", "f", ":", "f", "f", "f", "f">>)
      [] ty = "SocketAddrV4" -> Len(<<"2", "5", "5", ".", "2", "5", "5", ".", "2", "5", "5", ".", "2", "5", "5", ":", "6", "5", "5", "3", "6">>)
      [] ty = "SocketAddrV6" ->
             Len(<<"[", "f", "f", "f", "f", ":", "f", "f", "f", "f", ":", "f", "f", "f", "f", ":", "f", "f", "f", "f", ":", "f", "f", "f", "f", ":", "f", "f", "f", "f", ":", "f", "f", "f", "f", ":", "f", "f", "f", "f", "%", "4", "2", "9", "4", "9", "6", "7", "2", "9", "6", "]", ":", "6", "5", "5", "3", "6">>)

\* the else branch of Display::fmt of the four types: the text written to
\* a buffer, and the string handed to Formatter::pad
fmt_padded(ty, v, mem, alive) ==
    With(write_str(DisplayBuffer_new(LongestLen(ty)), to_string(ty, v)),
         LAMBDA w :
             IF w.ok
             THEN [ok |-> TRUE, val |-> as_str(w.b, mem, alive),
                   len |-> w.b.len, panic |-> FALSE]
             ELSE [ok |-> FALSE, val |-> <<>>, len |-> w.b.len,
                   panic |-> TRUE])

\* the bytes found in memory that was not written
UninitBytes == {"0", "@"}

\* the memory contents sampled: n bytes, all the same or the two in turn
Memories(n) ==
    {[i \in 1..n |-> c] : c \in UninitBytes}
        \cup {[i \in 1..n |-> IF i % 2 = 1 THEN "@" ELSE "0"]}

\* the sets of surviving places sampled for an array of n bytes: a dead
\* array overwritten in whole 8-byte words, in any combination, and one
\* overwritten from any byte on
AliveSets(n) ==
    {{i \in 1..n : WordOf(i) \in ws} : ws \in SUBSET WordsOf(n)}
        \cup {1..k : k \in 0..n}

\* v is one of the typed values the specification of the staging buffer
\* starts from; the longest text of each type is among them
IsPadValue(v) ==
    \/ \E a \in {<<0, 0, 0, 0>>, <<127, 0, 0, 1>>, <<255, 255, 255, 255>>} :
           v = [type |-> "Ipv4Addr", val |-> a]
    \/ \E f \in {0, 65535}, x \in {0, 65535}, y \in {1, 65535} :
           v = [type |-> "Ipv6Addr",
                val |-> Ipv6FromSegments(<<f, f, f, f, f, x, x, y>>)]
    \/ \E a \in {<<127, 0, 0, 1>>, <<255, 255, 255, 255>>}, p \in {80, 65535} :
           v = [type |-> "SocketAddrV4", val |-> SocketAddrV4_new(a, p)]
    \/ \E f \in {0, 65535}, x \in {<<49162, 2571>>, <<65535, 65535>>},
           p \in {80, 65535}, s \in {<<0, 0>>, <<0, 1>>, <<65535, 65535>>} :
           v = [type |-> "SocketAddrV6",
                val |-> SocketAddrV6_new(
                            Ipv6FromSegments(<<f, f, f, f, f, 65535,
                                               x[1], x[2]>>),
                            p, ZERO(32), s)]

InitPad ==
    /\ input = <<>>
    /\ cursor = 1
    /\ stdout = <<>>
    /\ IsPadValue(value)
    /\ last = [op |-> "new", ok |-> TRUE, val |-> <<>>, err |-> "none",
               before |-> 1, panic |-> FALSE]

\* format!("{:30}", value): last.val is the string handed to pad,
\* last.before the number of bytes written to the buffer
FmtPadded ==
    /\ last.op = "new"
    /\ \E mem \in Memories(LongestLen(value.type)),
          alive \in AliveSets(LongestLen(value.type)) :
          last' = With(fmt_padded(value.type, value.val, mem, alive),
                       LAMBDA r :
                           [op |-> "pad", ok |-> r.ok, val |-> r.val,
                            err |-> "none", before |-> r.len,
                            panic |-> r.panic])
    /\ UNCHANGED <<input, cursor, stdout, value>>

NextPad == FmtPadded

SpecPad == InitPad /\ [][NextPad]_vars

\* C27: when a width or precision is requested for Ipv4Addr, Ipv6Addr,
\* SocketAddrV4 or SocketAddrV6, the string handed to the padding step is
\* exactly the canonical text produced without width or precision: the same
\* bytes, and as long as the number of bytes written to the staging buffer,
\* for every value and not only for those whose text fills the buffer.
C27_PaddedTextIsCanonical ==
    last.op = "pad" =>
        /\ ~last.panic
        /\ last.val = to_string(value.type, value.val)
        /\ Len(last.val) = last.before

-----------------------------------------------------------------------------
(* read_number: the specification *)

NumberTexts ==
    { <<>>, <<"0">>, <<"0", "0">>, <<"0", "0", "7">>, <<"7">>, <<"2", "5", "5">>, <<"2", "5", "6">>, <<"0", "2", "5", "5">>, <<"9", "9", "9">>,
      <<"1", "0", "0", "0">>, <<"6", "5", "5", "3", "5">>, <<"6", "5", "5", "3", "6">>, <<"0", "6", "5", "5", "3", "5">>, <<"f", "f", "f", "f">>, <<"F", "F", "F", "F">>, <<"f", "F", "f", "F">>,
      <<"1", "0", "0", "0", "0">>, <<"f", "f", "f", "f", "f", "f", "f", "f">>, <<"1", "0", "0", "0", "0", "0", "0", "0", "0">>, <<"4", "2", "9", "4", "9", "6", "7", "2", "9", "5">>, <<"4", "2", "9", "4", "9", "6", "7", "2", "9", "6">>,
      <<"9", "9", "9", "9", "9", "9", "9", "9", "9", "9", "9">>, <<"1", "2", "g">>, <<"g">>, <<":", "1">>, <<"1", ":", "2">>, <<"f", "f", ".">>, <<"1", "a">>, <<"a", "1">>,
      <<"0", "x", "1">>, <<"0", "9">>, <<"9", " ">> }

NumberRadixes == {10, 16}

\* max_digits: None, Some(1), Some(3), Some(4)
NumberMaxDigits == {{}, {1}, {3}, {4}}

\* u8, u16, u32
NumberWidths == {8, 16, 32}

InitNumber == InitOn(NumberTexts)

\* p.read_number::<T>(radix, max_digits, allow_zero_prefix) at the cursor;
\* value keeps the arguments of the call
CallReadNumber ==
    \E radix \in NumberRadixes, max_digits \in NumberMaxDigits,
       allow_zero_prefix \in BOOLEAN, w \in NumberWidths :
        /\ cursor' = read_number(input, cursor, radix, max_digits,
                                 allow_zero_prefix, w).pos
        /\ last' = With(read_number(input, cursor, radix, max_digits,
                                    allow_zero_prefix, w),
                        LAMBDA r : [op |-> "read_number", ok |-> r.ok,
                                    val |-> r.val, before |-> cursor,
                                    panic |-> FALSE])
        /\ value' = [radix |-> radix, max_digits |-> max_digits,
                     allow_zero_prefix |-> allow_zero_prefix, w |-> w]
        /\ UNCHANGED <<input, stdout>>

\* p.read_char() between two numbers
SkipChar ==
    /\ read_char(input, cursor).ok
    /\ cursor' = read_char(input, cursor).pos
    /\ last' = [op |-> "read_char", ok |-> TRUE, val |-> input[cursor],
                before |-> cursor, panic |-> FALSE]
    /\ UNCHANGED <<input, stdout, value>>

NextNumber == CallReadNumber \/ SkipChar

SpecNumber == InitNumber /\ [][NextNumber]_vars

\* the digits of the radix, hex digits in either case
DigitChars(radix) ==
    IF radix = 10
    THEN {"0", "1", "2", "3", "4", "5", "6", "7", "8", "9"}
    ELSE {"0", "1", "2", "3", "4", "5", "6", "7", "8", "9",
          "a", "b", "c", "d", "e", "f", "A", "B", "C", "D", "E", "F"}

\* the value of one digit
DigitValueOf(c) ==
    CASE c \in {"a", "A"} -> 10 [] c \in {"b", "B"} -> 11
      [] c \in {"c", "C"} -> 12 [] c \in {"d", "D"} -> 13
      [] c \in {"e", "E"} -> 14 [] c \in {"f", "F"} -> 15
      [] OTHER -> CHOOSE d \in 0..9 : HexLower[d + 1] = c

\* the length of the longest run of digits of the radix in s from pos on
RunLength(s, pos, radix) ==
    CHOOSE n \in 0..(Len(s) + 1 - pos) :
        /\ \A i \in pos..(pos + n - 1) : s[i] \in DigitChars(radix)
        /\ pos + n <= Len(s) => s[pos + n] \notin DigitChars(radix)

RECURSIVE WideValueOf(_, _)
\* the value of a digit text as a 64-bit number (four limbs)
WideValueOf(run, radix) ==
    IF run = <<>> THEN <<0, 0, 0, 0>>
    ELSE Tail(MulAddLimbs(WideValueOf(SubSeq(run, 1, Len(run) - 1), radix),
                          radix, DigitValueOf(run[Len(run)])))

\* a 64-bit number is below 2^w
FitsIn(wide, w) ==
    CASE w = 8 -> wide[1] = 0 /\ wide[2] = 0 /\ wide[3] = 0 /\ wide[4] < 256
      [] w = 16 -> wide[1] = 0 /\ wide[2] = 0 /\ wide[3] = 0
      [] w = 32 -> wide[1] = 0 /\ wide[2] = 0

\* C28: read_number(radix, max_digits, allow_zero_prefix) into a type of
\* w bits, with run the longest prefix of the remaining input made of digits
\* of the radix: it returns Some(value of run) and advances the cursor by
\* |run| if and only if |run| >= 1, |run| <= max_digits when a maximum is
\* given, the value is below 2^w, and allow_zero_prefix is true or |run| = 1
\* or run does not start with '0'; otherwise it returns None and leaves the
\* cursor where it was.
C28_ReadNumberContract ==
    last.op = "read_number" =>
        LET n == RunLength(input, last.before, value.radix)
            run == SubSeq(input, last.before, last.before + n - 1)
            wide == WideValueOf(run, value.radix)
            good == /\ n >= 1
                    /\ \A m \in value.max_digits : n <= m
                    /\ FitsIn(wide, value.w)
                    /\ \/ value.allow_zero_prefix
                       \/ n = 1
                       \/ run[1] # "0"
        IN  IF good
            THEN /\ last.ok
                 /\ last.val = IF value.w = 32 THEN <<wide[3], wide[4]>>
                                ELSE wide[4]
                 /\ cursor = last.before + n
            ELSE /\ ~last.ok
                 /\ cursor = last.before

\* C28 witness: the four hex digits of "fFfF" were read into a u16 with a
\* limit of four digits, and the cursor is behind them
C28_Witness ==
    /\ last.op = "read_number"
    /\ input = <<"f", "F", "f", "F">>
    /\ value = [radix |-> 16, max_digits |-> {4},
                allow_zero_prefix |-> FALSE, w |-> 16]
    /\ last.ok
    /\ last.val = 65535
    /\ cursor = 5

-----------------------------------------------------------------------------
(* The segments of an accepted IPv6 text *)

\* the groups of a text of hex groups with ':' between them, none for the
\* empty text
GroupsOf(t) == IF t = <<>> THEN <<>> ELSE Split(t, ":", <<>>)

\* every group has 1 to 4 hex digits
AreHexGroups(gs) ==
    \A i \in 1..Len(gs) : IsHexText(gs[i]) /\ Len(gs[i]) <= 4

\* the segments the claim gives head "::" tail
Spliced(head, tail) ==
    [i \in 1..8 |->
        IF i <= Len(head) THEN HexValueOf(head[i], 0)
        ELSE IF i > 8 - Len(tail)
        THEN HexValueOf(tail[i - (8 - Len(tail))], 0)
        ELSE 0]

\* C29: for every IPv6 text head "::" tail with k head groups and m tail
\* groups of 1 to 4 hex digits each, k + m <= 7, Ipv6Addr::from_str yields
\* the segments head[0..k], then 8 - k - m zero segments, then tail[0..m];
\* for a text of exactly 8 groups with ':' between them and no "::" it
\* yields those 8 groups in order.
C29_Ipv6Splice ==
    last.op = "Ipv6Addr" =>
        /\ \A d \in DoubleColons(input) :
              LET head == GroupsOf(SubSeq(input, 1, d - 1))
                  tail == GroupsOf(SubSeq(input, d + 2, Len(input)))
              IN  AreHexGroups(head) /\ AreHexGroups(tail)
                      /\ Len(head) + Len(tail) <= 7
                  => last.ok /\ segments(last.val) = Spliced(head, tail)
        /\ LET gs == GroupsOf(input)
           IN  Len(gs) = 8 /\ AreHexGroups(gs)
               => last.ok /\ segments(last.val) = Spliced(gs, <<>>)

\* C29 witness: three head groups and four tail groups were accepted with
\* one zero segment between them
C29_Witness ==
    /\ last.op = "Ipv6Addr"
    /\ input = <<"1", ":", "2", ":", "3", ":", ":", "5", ":", "6", ":", "7", ":", "8">>
    /\ last.ok
    /\ segments(last.val) = <<1, 2, 3, 0, 5, 6, 7, 8>>

-----------------------------------------------------------------------------
(* The setters of SocketAddr *)

\* SocketAddr::new_ip
SocketAddr_new_ip(ip, port) ==
    IF ip.tag = "V4"
    THEN [tag |-> "V4", sock |-> SocketAddrV4_new(ip.addr, port)]
    ELSE [tag |-> "V6",
          sock |-> SocketAddrV6_new(ip.addr, port, ZERO(32), ZERO(32))]

\* SocketAddr::host
SocketAddr_host(a) ==
    CASE a.tag = "SCION" -> a.sock.addr.host
      [] a.tag = "V4" -> IpAddrV4(a.sock.ip)
      [] a.tag = "V6" -> IpAddrV6(a.sock.ip)

\* SocketAddr::port
SocketAddr_port(a) == a.sock.port

\* set_ip whose last arm builds the new socket with port 0
SocketAddr_set_ip_port0(a, new_ip) ==
    CASE a.tag = "V4" /\ new_ip.tag = "V4" ->
             [a EXCEPT !.sock.ip = new_ip.addr]
      [] a.tag = "V6" /\ new_ip.tag = "V6" ->
             [a EXCEPT !.sock.ip = new_ip.addr]
      [] a.tag = "SCION" -> [a EXCEPT !.sock.addr = set_host(@, new_ip)]
      [] OTHER -> SocketAddr_new_ip(new_ip, 0)

\* SocketAddr::set_ip: SocketAddrV4::set_ip, SocketAddrV6::set_ip and
\* SocketAddrScion::set_host in the first three arms
SocketAddr_set_ip(a, new_ip) ==
    CASE a.tag = "V4" /\ new_ip.tag = "V4" ->
             [a EXCEPT !.sock.ip = new_ip.addr]
      [] a.tag = "V6" /\ new_ip.tag = "V6" ->
             [a EXCEPT !.sock.ip = new_ip.addr]
      [] a.tag = "SCION" -> [a EXCEPT !.sock.addr = set_host(@, new_ip)]
      [] OTHER -> SocketAddr_new_ip(new_ip, SocketAddr_port(a))

\* SocketAddr::set_port
SocketAddr_set_port(a, new_port) == [a EXCEPT !.sock.port = new_port]

\* L3Addr::IP(ip) and L3Addr::SCION(addr)
L3AddrIP(ip) == [kind |-> "IP", ip |-> ip]

L3AddrSCION(addr) == [kind |-> "SCION", addr |-> addr]

\* SocketAddr::set_host: the L3Addr::IP arm is set_ip; the L3Addr::SCION
\* arm drops the ia, and on a V4 or V6 socket a host of the other family
\* as well
SocketAddr_set_host(a, new_host) ==
    IF new_host.kind = "SCION"
    THEN With(new_host.addr.host, LAMBDA host :
        CASE a.tag = "SCION" -> [a EXCEPT !.sock.addr = set_host(@, host)]
          [] a.tag = "V4" ->
                 IF host.tag = "V4" THEN [a EXCEPT !.sock.ip = host.addr]
                 ELSE a
          [] a.tag = "V6" ->
                 IF host.tag = "V6" THEN [a EXCEPT !.sock.ip = host.addr]
                 ELSE a)
    ELSE With(new_host.ip, LAMBDA new_ip :
        CASE a.tag = "V4" /\ new_ip.tag = "V4" ->
                 [a EXCEPT !.sock.ip = new_ip.addr]
          [] a.tag = "V6" /\ new_ip.tag = "V6" ->
                 [a EXCEPT !.sock.ip = new_ip.addr]
          [] a.tag = "SCION" -> [a EXCEPT !.sock.addr = set_host(@, new_ip)]
          [] OTHER -> SocketAddr_new_ip(new_ip, SocketAddr_port(a)))

SockIps ==
    {IpAddrV4(<<127, 0, 0, 1>>), IpAddrV4(<<10, 0, 0, 1>>),
     IpAddrV6(<<0, 0, 0, 0, 0, 0, 0, 0, 0, 0, 0, 0, 0, 0, 0, 1>>),
     IpAddrV6(<<254, 128, 0, 0, 0, 0, 0, 0, 0, 0, 0, 0, 0, 0, 0, 1>>)}

SockPorts == {0, 53, 65535}

\* flowinfo and scope id of the V6 sockets
SockFlows == {<<0, 0>>, <<0, 7>>}

\* v is one of the sockets the specification starts from
IsSockValue(v) ==
    \/ \E ip \in SockIps, p \in SockPorts :
           ip.tag = "V4" /\ v = SocketAddr_new_ip(ip, p)
    \/ \E ip \in SockIps, p \in SockPorts, f \in SockFlows, s \in SockFlows :
           /\ ip.tag = "V6"
           /\ v = [tag |-> "V6", sock |-> SocketAddrV6_new(ip.addr, p, f, s)]
    \/ \E ip \in SockIps, p \in SockPorts :
           v = [tag |-> "SCION",
                sock |-> SocketAddrScion_new1(
                             ScionAddr_new1(19, <<0, 65450, 1, 4199>>, ip), p)]

\* input is the list of the ports and addresses supplied so far, those of
\* the constructor first; last.val is the socket before the last call
InitSock ==
    /\ cursor = 1
    /\ stdout = <<>>
    /\ IsSockValue(value)
    /\ input = <<[field |-> "port", arg |-> SocketAddr_port(value)],
                 [field |-> "ip", arg |-> SocketAddr_host(value)]>>
    /\ last = NoCall

SockSetter(op, field, arg, after) ==
    /\ Len(input) < 2 + MaxCalls
    /\ value' = after
    /\ input' = Append(input, [field |-> field, arg |-> arg])
    /\ last' = [op |-> op, ok |-> TRUE, val |-> value, before |-> 1,
                panic |-> FALSE]
    /\ UNCHANGED <<cursor, stdout>>

SetIp ==
    \E ip \in SockIps :
        SockSetter("set_ip", "ip", ip, SocketAddr_set_ip(value, ip))

SetPort ==
    \E p \in SockPorts :
        SockSetter("set_port", "port", p, SocketAddr_set_port(value, p))

\* the ia of the L3Addr::SCION arguments: 7-5
SockIa == <<7, 0, 0, 5>>

SetL3Host ==
    \E new_host \in {L3AddrIP(ip) : ip \in SockIps}
                 \cup {L3AddrSCION(ScionAddr_new(SockIa, ip)) : ip \in SockIps} :
        SockSetter("set_host", "host", new_host,
                   SocketAddr_set_host(value, new_host))

NextSock == SetIp \/ SetPort \/ SetL3Host

SpecSock == InitSock /\ [][NextSock]_vars

\* C30: for a SocketAddr of any variant and any sequence of set_ip and
\* set_port calls, port() is the argument of the most recent set_port (the
\* initial port if there was none); set_ip(ip) leaves port() alone and
\* afterwards host() == ip; a SCION socket stays SCION with its IA unchanged
\* whatever the family of ip, and a V4 or V6 socket given an ip of the other
\* family becomes the variant of that family with flowinfo and scope id 0.
C30_SocketSetters ==
    /\ SocketAddr_port(value) = Latest("port")
    /\ last.op = "set_ip" =>
          /\ SocketAddr_port(value) = SocketAddr_port(last.val)
          /\ SocketAddr_host(value) = input[Len(input)].arg
          /\ last.val.tag = "SCION" =>
                /\ value.tag = "SCION"
                /\ get_ia(value.sock.addr) = get_ia(last.val.sock.addr)
          /\ last.val.tag # "SCION"
                 /\ input[Len(input)].arg.tag # last.val.tag =>
                /\ value.tag = input[Len(input)].arg.tag
                /\ value.tag = "V6" =>
                      /\ value.sock.flowinfo = ZERO(32)
                      /\ value.sock.scope_id = ZERO(32)

\* C30 witness: a V6 socket with a scope id and port 53 was given port
\* 65535 and then an IPv4 address, and is a V4 socket with port 65535
C30_Witness ==
    /\ Len(input) = 4
    /\ input[1].arg = 53
    /\ input[3] = [field |-> "port", arg |-> 65535]
    /\ last.op = "set_ip"
    /\ last.val.tag = "V6"
    /\ last.val.sock.scope_id = <<0, 7>>
    /\ value = [tag |-> "V4",
                sock |-> SocketAddrV4_new(<<10, 0, 0, 1>>, 65535)]

====
